---------------------------- MODULE Spec2Model ----------------------------
(***************************************************************************)
(* A model of the orchestrator: the durable phase/session state store      *)
(* (src/src/state.ts), the question/response store (src/src/blocking.ts),  *)
(* the dev-session scheduler (src/unnamed/part_001, agents/dev) and the    *)
(* orchestration driver (src/unnamed/part_000, the Orchestrator class).    *)
(*                                                                         *)
(* Three specifications share the variables:                               *)
(*   SpecStore  arbitrary calls of the StateManager methods                *)
(*   SpecSched  one call of runDevSessions                                 *)
(*   Spec       the Orchestrator: run, kill, resume, with its agents       *)
(***************************************************************************)
EXTENDS Integers, Sequences, FiniteSets, TLC

(***************************************************************************)
(* Bounds of the model.                                                    *)
(***************************************************************************)
\* the wall clock runs 0..MaxClock
MaxClock == 1

(***************************************************************************)
(* Values.  null is the string "null" for the nullable string fields and   *)
(* NullFile for a nullable question-file path; a question file q-00n.md is *)
(* the number n.                                                           *)
(***************************************************************************)
Null == "null"
NullFile == 0

Phases == {"init", "po_conversation", "tech_lead_design", "dev_sessions", "completed"}
SessionStatuses == {"pending", "running", "blocked", "completed"}
BlockedAgents == {"po", "tech_lead", "dev"}
Recipients == {"user", "po", "tech_lead"}
Areas == {"frontend", "backend"}

\* the ticket lists handed to the store
TicketLists == {<<1>>, <<2, 3>>}

(***************************************************************************)
(* state.ts: the pure state functions.  `now` is new Date() at the call.   *)
(***************************************************************************)
VALID_TRANSITIONS_skip ==
  [p \in Phases |->
     CASE p = "init"             -> <<"po_conversation", "tech_lead_design">>
       [] p = "po_conversation"  -> <<"tech_lead_design">>
       [] p = "tech_lead_design" -> <<"dev_sessions">>
       [] p = "dev_sessions"     -> <<"completed">>
       [] p = "completed"        -> <<"init">>]

VALID_TRANSITIONS ==
  [p \in Phases |->
     CASE p = "init"             -> <<"po_conversation">>
       [] p = "po_conversation"  -> <<"tech_lead_design">>
       [] p = "tech_lead_design" -> <<"dev_sessions">>
       [] p = "dev_sessions"     -> <<"completed">>
       [] p = "completed"        -> <<>>]

createInitialState(now) ==
  [phase |-> "init",
   blocked |-> [isBlocked |-> FALSE, blockedAgent |-> Null,
                questionFile |-> NullFile, waitingFor |-> Null],
   devSessions |-> <<>>,
   currentAgent |-> Null,
   lastUpdated |-> now]

isValidTransition(from, to) ==
  \E i \in 1..Len(VALID_TRANSITIONS[from]) : VALID_TRANSITIONS[from][i] = to

\* transitionPhase throws StateError exactly when this holds
transitionPhaseThrows(state, newPhase) == ~isValidTransition(state.phase, newPhase)

transitionPhase(state, newPhase, now) ==
  [state EXCEPT !.phase = newPhase, !.lastUpdated = now]

setBlocked(state, blockedAgent, questionFile, waitingFor, now) ==
  [state EXCEPT !.blocked = [isBlocked |-> TRUE, blockedAgent |-> blockedAgent,
                             questionFile |-> questionFile, waitingFor |-> waitingFor],
                !.lastUpdated = now]

clearBlocked(state, now) ==
  [state EXCEPT !.blocked = [isBlocked |-> FALSE, blockedAgent |-> Null,
                             questionFile |-> NullFile, waitingFor |-> Null],
                !.lastUpdated = now]

setCurrentAgent(state, agent, now) ==
  [state EXCEPT !.currentAgent = agent, !.lastUpdated = now]

\* devSessions.findIndex((s) => s.area === area), 0 for -1
findIndex(sessions, area) ==
  IF \E i \in 1..Len(sessions) : sessions[i].area = area
  THEN CHOOSE i \in 1..Len(sessions) :
         /\ sessions[i].area = area
         /\ \A j \in 1..(i - 1) : sessions[j].area # area
  ELSE 0

addDevSessionThrows_nocheck(state, area) == FALSE

addDevSessionThrows(state, area) == findIndex(state.devSessions, area) # 0

addDevSession(state, area, tickets, now) ==
  [state EXCEPT !.devSessions =
                   Append(@, [area |-> area, tickets |-> tickets, status |-> "pending"]),
                !.lastUpdated = now]

updateDevSessionThrows(state, area) == findIndex(state.devSessions, area) = 0

\* updates is a record holding some of the fields tickets, status
updateDevSession(state, area, updates, now) ==
  LET i == findIndex(state.devSessions, area)
      old == state.devSessions[i]
      new == [area |-> old.area,
              tickets |-> IF "tickets" \in DOMAIN updates THEN updates.tickets
                          ELSE old.tickets,
              status |-> IF "status" \in DOMAIN updates THEN updates.status
                         ELSE old.status]
  IN [state EXCEPT !.devSessions = [@ EXCEPT ![i] = new], !.lastUpdated = now]

removeDevSessionThrows(state, area) == findIndex(state.devSessions, area) = 0

filterNotArea(sessions, area) ==
  SelectSeq(sessions, LAMBDA s : s.area # area)

removeDevSession(state, area, now) ==
  [state EXCEPT !.devSessions = filterNotArea(@, area), !.lastUpdated = now]

getDevSessionsByStatus_notCompleted(state, status) ==
  SelectSeq(state.devSessions, LAMBDA s : s.status # "completed")

getDevSessionsByStatus(state, status) ==
  SelectSeq(state.devSessions, LAMBDA s : s.status = status)

\* saveState stamps the state object it is given and replaces the file with it
saveState(state, now) == [state EXCEPT !.lastUpdated = now]


(***************************************************************************)
(* blocking.ts: the question/response store.                               *)
(*   qs  the question files: qs[n] is q-00n.md, holding who wrote it, the  *)
(*       value of its For line and the rank of its modification time       *)
(*   rs  the response files: rs[n] belongs to q-00n.md; `rewritten` tells  *)
(*       that the file was written when it already existed                 *)
(***************************************************************************)
\* the store holds at most MaxQuestions question files
MaxQuestions == 1

EXIT_SUCCESS == 0
EXIT_ERROR == 1
EXIT_BLOCKED == 2

NoResponse == [exists |-> FALSE, text |-> "", rewritten |-> FALSE]

\* what the user types at a prompt, trimmed: nothing, or something
Answers == {"", "yes"}

getResponseFilePath(questionFile) == questionFile

hasResponse(rs, questionFile) == rs[getResponseFilePath(questionFile)].exists

\* the orders fs.readdirSync can list the files of S in
Listings(S) ==
  {l \in [1..Cardinality(S) -> S] : \A i, j \in DOMAIN l : i # j => l[i] # l[j]}

listQuestionFiles_oldestFirst(qs) ==
  {l \in Listings(1..Len(qs)) :
     \A i \in 1..(Len(l) - 1) : qs[l[i]].mtime <= qs[l[i + 1]].mtime}

\* listQuestionFiles: the question files sorted by statB.mtimeMs - statA.mtimeMs,
\* newest first.  The sort compares modification times only, so files of equal
\* time stay in the order of the directory listing, which can be any: the result
\* is one of the listings that are sorted
listQuestionFiles(qs) ==
  {l \in Listings(1..Len(qs)) :
     \A i \in 1..(Len(l) - 1) : qs[l[i]].mtime >= qs[l[i + 1]].mtime}

\* the loop of findLatestUnansweredQuestion over questionFiles
RECURSIVE FirstWithoutResponse(_, _)
FirstWithoutResponse(questionFiles, rs) ==
  IF questionFiles = <<>> THEN NullFile
  ELSE IF ~hasResponse(rs, Head(questionFiles)) THEN Head(questionFiles)
  ELSE FirstWithoutResponse(Tail(questionFiles), rs)

\* what findLatestUnansweredQuestion() can return, one value per sorted listing
findLatestUnansweredQuestion(qs, rs) ==
  {FirstWithoutResponse(l, rs) : l \in listQuestionFiles(qs)}

\* generateQuestionFileName: the greatest number in the directory, plus one
generateQuestionFileName(qs) == Len(qs) + 1

\* writeQuestionFile from the rename on: filePath is created, or replaced when
\* it exists
renameQuestionFile(qs, filePath, fromAgent, forRecipient, mtime) ==
  IF filePath <= Len(qs)
  THEN [qs EXCEPT ![filePath] = [from |-> fromAgent, for |-> forRecipient, mtime |-> mtime]]
  ELSE Append(qs, [from |-> fromAgent, for |-> forRecipient, mtime |-> mtime])

\* writeQuestionFile when nothing else touches the directory during the call
writeQuestionFile(qs, fromAgent, forRecipient, mtime) ==
  renameQuestionFile(qs, generateQuestionFileName(qs), fromAgent, forRecipient, mtime)

parseQuestionFile(qs, filePath) ==
  [filePath |-> filePath,
   fromAgent |-> qs[filePath].from,
   forRecipient |-> IF qs[filePath].for \in {"user", "po", "tech_lead"}
                    THEN qs[filePath].for ELSE "user"]

routeQuestion_byAgent(parsedQuestion) ==
  IF parsedQuestion.fromAgent = <<"dev">> THEN "spawn_tech_lead"
  ELSE CASE parsedQuestion.forRecipient = "user" -> "prompt_user"
         [] parsedQuestion.forRecipient = "po" -> "spawn_po"
         [] parsedQuestion.forRecipient = "tech_lead" -> "spawn_tech_lead"
         [] OTHER -> "prompt_user"

routeQuestion(parsedQuestion) ==
  CASE parsedQuestion.forRecipient = "user" -> "prompt_user"
    [] parsedQuestion.forRecipient = "po" -> "spawn_po"
    [] parsedQuestion.forRecipient = "tech_lead" -> "spawn_tech_lead"
    [] OTHER -> "prompt_user"

writeResponse(rs, questionFile, response) ==
  [rs EXCEPT ![getResponseFilePath(questionFile)] =
     [exists |-> TRUE, text |-> response,
      rewritten |-> @.rewritten \/ @.exists]]

\* the trimmed response text, Null when there is no response file
readResponse(rs, questionFile) ==
  IF ~rs[getResponseFilePath(questionFile)].exists THEN Null
  ELSE rs[getResponseFilePath(questionFile)].text

\* JavaScript truthiness of a string | null
Truthy(x) == x # Null /\ x # ""

\* the modification-time rank a file written now gets: later than every file there
NextMtime(qs) == Len(qs) + 1

(***************************************************************************)
(* blocking.ts: the text of a question file.  A string is a sequence of    *)
(* characters; the model's characters are " ", "\n", "#" and words that    *)
(* hold none of these ("For:", "Question from:", "Context", "a", ...).     *)
(***************************************************************************)
IsSpace(c) == c \in {" ", "\n"}

RECURSIVE trimStart(_)
trimStart(str) ==
  IF str # <<>> /\ IsSpace(Head(str)) THEN trimStart(Tail(str)) ELSE str

RECURSIVE trimEnd(_)
trimEnd(str) ==
  IF str # <<>> /\ IsSpace(str[Len(str)])
  THEN trimEnd(SubSeq(str, 1, Len(str) - 1)) ELSE str

\* String.prototype.trim
trim(str) == trimEnd(trimStart(str))

\* String.prototype.split(sep): "" splits into [""]
RECURSIVE split(_, _)
split(str, sep) ==
  IF \A i \in 1..Len(str) : str[i] # sep THEN <<str>>
  ELSE LET i == CHOOSE k \in 1..Len(str) :
                  str[k] = sep /\ \A j \in 1..(k - 1) : str[j] # sep
       IN <<SubSeq(str, 1, i - 1)>> \o split(SubSeq(str, i + 1, Len(str)), sep)

\* Array.prototype.join(sep)
RECURSIVE join(_, _)
join(strs, sep) ==
  IF strs = <<>> THEN <<>>
  ELSE IF Len(strs) = 1 THEN strs[1]
  ELSE strs[1] \o <<sep>> \o join(Tail(strs), sep)

\* the lower case of a word
Lower(c) ==
  CASE c = "PO" -> "po"
    [] c = "For:" -> "for:"
    [] c = "Question from:" -> "question from:"
    [] c = "Context" -> "context"
    [] c = "Question" -> "question"
    [] c = "Options" -> "options"
    [] c = "Notes" -> "notes"
    [] OTHER -> c

toLowerCase(str) == [i \in 1..Len(str) |-> Lower(str[i])]

\* String.prototype.includes(keyword), for a lower-case string and the keywords
\* of parseQuestionFile: the words that hold the keyword
includes(str, keyword) ==
  \E i \in 1..Len(str) :
    \/ keyword = "context" /\ str[i] = "context"
    \/ keyword = "question" /\ str[i] \in {"question", "question from:"}
    \/ keyword = "option" /\ str[i] = "options"

\* line.match(/^#\s*Question from:\s*(.+)$/i): <<group 1>>, or <<>> for no match
fromMatch(line) ==
  IF line = <<>> \/ Head(line) # "#" THEN <<>>
  ELSE LET rest == trimStart(Tail(line))
       IN IF rest = <<>> \/ Lower(Head(rest)) # "question from:" \/ Len(rest) < 2
          THEN <<>>
          ELSE <<Tail(rest)>>

\* line.match(/^##\s*For:\s*(.+)$/i)
forMatch(line) ==
  IF Len(line) < 2 \/ line[1] # "#" \/ line[2] # "#" THEN <<>>
  ELSE LET rest == trimStart(SubSeq(line, 3, Len(line)))
       IN IF rest = <<>> \/ Lower(Head(rest)) # "for:" \/ Len(rest) < 2
          THEN <<>>
          ELSE <<Tail(rest)>>

\* line.match(/^##\s*(.+)$/i)
sectionMatch(line) ==
  IF Len(line) < 3 \/ line[1] # "#" \/ line[2] # "#" THEN <<>>
  ELSE <<SubSeq(line, 3, Len(line))>>

\* parseQuestionFile: the closure saveSection, on the variables of the parse
saveSection(st) ==
  LET text == trim(join(st.sectionContent, "\n"))
      optionLines == SelectSeq(split(text, "\n"), LAMBDA l : trim(l) # <<>>)
  IN [st EXCEPT
        !.context = IF st.currentSection = "context" THEN text ELSE @,
        !.question = IF st.currentSection = "question" THEN text ELSE @,
        !.options = IF st.currentSection = "options" THEN @ \o optionLines ELSE @,
        !.sectionContent = <<>>]

forRecipientOf_asWritten(recipient) ==
  IF recipient # <<>> THEN recipient[1] ELSE "user"

\* parseQuestionFile: the recipient of a For line, user when it is not one of
\* the three
forRecipientOf(recipient) ==
  IF recipient \in {<<"user">>, <<"po">>, <<"tech_lead">>}
  THEN recipient[1] ELSE "user"

\* parseQuestionFile: the body of `for (const line of lines)`
parseLine(st, line) ==
  IF fromMatch(line) # <<>>
  THEN [st EXCEPT !.fromAgent = trim(fromMatch(line)[1])]
  ELSE IF forMatch(line) # <<>>
  THEN LET recipient == toLowerCase(trim(forMatch(line)[1]))
       IN [st EXCEPT !.forRecipient = forRecipientOf(recipient)]
  ELSE IF sectionMatch(line) # <<>>
  THEN LET sectionName == toLowerCase(trim(sectionMatch(line)[1]))
       IN [saveSection(st) EXCEPT !.currentSection =
             IF includes(sectionName, "context") THEN "context"
             ELSE IF includes(sectionName, "question") THEN "question"
             ELSE IF includes(sectionName, "option") THEN "options"
             ELSE ""]
  ELSE IF st.currentSection # ""
  THEN [st EXCEPT !.sectionContent = Append(@, line)]
  ELSE st

RECURSIVE parseLines(_, _)
parseLines(st, lines) ==
  IF lines = <<>> THEN st
  ELSE parseLines(parseLine(st, Head(lines)), Tail(lines))

\* parseQuestionFile, from the content of an existing file
parseContent(content) ==
  LET start == [fromAgent |-> <<>>, forRecipient |-> "user", context |-> <<>>,
                question |-> <<>>, options |-> <<>>,
                currentSection |-> "", sectionContent |-> <<>>]
      end == saveSection(parseLines(start, split(content, "\n")))
  IN [fromAgent |-> end.fromAgent, forRecipient |-> end.forRecipient,
      context |-> end.context, question |-> end.question, options |-> end.options]

\* writeQuestionFile: the content written
questionFileContent(fromAgent, forRecipient, context, question, options) ==
  LET lines ==
        << <<"#", " ", "Question from:", " ">> \o fromAgent,
           <<>>,
           <<"#", "#", " ", "For:", " ", forRecipient>>,
           <<>>,
           <<"#", "#", " ", "Context">>,
           <<>>,
           context,
           <<>>,
           <<"#", "#", " ", "Question">>,
           <<>>,
           question >>
        \o (IF Len(options) > 0
            THEN << <<>>, <<"#", "#", " ", "Options">>, <<>> >> \o options
            ELSE <<>>)
  IN join(lines, "\n") \o <<"\n">>

(***************************************************************************)
(* agents/base.ts: the outcome of a process.  A close event carries the    *)
(* exit code, NoCode for null, and whether a signal ended the process.     *)
(***************************************************************************)
NoCode == -1

\* exits seen: success, error, blocked, an unknown code, and death by a signal
CloseEvents ==
  {[code |-> c, signal |-> FALSE] : c \in {0, 1, 2, 3}}
    \cup {[code |-> NoCode, signal |-> TRUE]}

AgentResultOf_signalOnly(ev, killedFlag) ==
  [exitCode |-> IF ev.code # NoCode THEN ev.code ELSE IF ev.signal THEN 1 ELSE 0,
   killed |-> ev.signal]

\* childProcess.on("close"): exitCode = code ?? (signal ? 1 : 0)
AgentResultOf(ev, killedFlag) ==
  [exitCode |-> IF ev.code # NoCode THEN ev.code ELSE IF ev.signal THEN 1 ELSE 0,
   killed |-> killedFlag \/ ev.signal]

isSuccess(result) == result.exitCode = EXIT_SUCCESS

isBlocked_asError(result) == result.exitCode = EXIT_ERROR

isBlocked(result) == result.exitCode = EXIT_BLOCKED

isError(result) == result.exitCode = EXIT_ERROR

(***************************************************************************)
(* agents/dev (src/unnamed/part_001).                                      *)
(***************************************************************************)
\* `latest` is what findLatestUnansweredQuestion() returned
checkBlockingForTechLead(qs, latest) ==
  IF latest = NullFile THEN [questionFile |-> NullFile, needsTechLead |-> FALSE]
  ELSE [questionFile |-> latest,
        needsTechLead |-> routeQuestion(parseQuestionFile(qs, latest)) = "spawn_tech_lead"]

toDevAgentResult_anyFailure(area, agentResult, qs, latest) ==
  LET status == IF isSuccess(agentResult) THEN "success"
                ELSE IF isBlocked(agentResult) THEN "blocked"
                ELSE "error"
      info == IF status # "success" THEN checkBlockingForTechLead(qs, latest)
              ELSE [questionFile |-> NullFile, needsTechLead |-> FALSE]
  IN [area |-> area, agentResult |-> agentResult, status |-> status,
      questionFile |-> info.questionFile, needsTechLead |-> info.needsTechLead]

toDevAgentResult(area, agentResult, qs, latest) ==
  LET status == IF isSuccess(agentResult) THEN "success"
                ELSE IF isBlocked(agentResult) THEN "blocked"
                ELSE "error"
      info == IF status = "blocked" THEN checkBlockingForTechLead(qs, latest)
              ELSE [questionFile |-> NullFile, needsTechLead |-> FALSE]
  IN [area |-> area, agentResult |-> agentResult, status |-> status,
      questionFile |-> info.questionFile, needsTechLead |-> info.needsTechLead]

\* spawnDevAgent / runDevAgent throw DevAgentError on this configuration
DevConfigInvalid(session, filesPresent) ==
  \/ session.area = ""
  \/ Len(session.tickets) = 0
  \/ ~filesPresent

PromiseAll_completionOrder(results, order) ==
  [i \in 1..Len(results) |-> results[order[i]][1]]

\* Promise.all(handles.map((h) => h.result)): the values in the order of the
\* promises, whatever `order` they settled in
PromiseAll(results, order) == [i \in 1..Len(results) |-> results[i][1]]

(***************************************************************************)
(* Variables.                                                              *)
(*   mem    the State held by the StateManager of the live process, as a   *)
(*          sequence of length one; <<>> when no process holds one         *)
(*   disk   the state file, <<state>>, or <<>> when the file is missing    *)
(*   clock  the wall clock                                                 *)
(*   lastCall  (SpecStore) the StateManager call just made and its outcome *)
(*   qs, rs the question files and the response files                      *)
(*   sIn, sPar   (SpecSched) the arguments of runDevSessions               *)
(*   sFiles      whether the prompt, PRD and architecture files exist      *)
(*   sPc         where runDevSessions is                                   *)
(*   sProc[i]    the subprocess of session i                               *)
(*   sRes[i]     the settled result of handle i, <<result>>, or <<>>       *)
(*   sOrder      the sessions in the order their results settled           *)
(*   sOut        what the call returned: its promise's state and value     *)
(*   pc          (Spec) where the driver process is; "off" when there is   *)
(*               no driver process                                         *)
(*   isRunning   Orchestrator.isRunning                                    *)
(*   child       the PO or tech-lead subprocess: its kind ("none" when     *)
(*               there is none) and whether it has written a question      *)
(*   agentRes    the POAgentResult / TechLeadAgentResult awaited, <<r>>    *)
(*   handles     Orchestrator.activeHandles.devSessions, each with its     *)
(*               subprocess and, from when it settles until the loop of    *)
(*               monitorDevSessions has walked it, its DevAgentResult      *)
(*   batch       sessionInputs of devSessionsPhase, until they are spawned *)
(*   todo        what a loop over sessions has still to visit              *)
(*   dIdx        the index i of the result loop of monitorDevSessions      *)
(*   prd, arch   whether the PRD and the architecture file exist           *)
(*   runResult   the OrchestratorResult run() returned, <<r>>              *)
(*   starts      how many driver processes have been started               *)
(*   benign      from the last resume on, every agent succeeds with its    *)
(*               artifact, every prompt is answered, nothing is killed     *)
(*   wr          (SpecQ) the agent processes that call writeQuestionFile:  *)
(*               where each is in the call and the path it generated       *)
(*   found       (SpecQ) what the last findLatestUnansweredQuestion() call *)
(*               returned, <<path>>                                        *)
(*   pIn         (SpecParse) the arguments of a writeQuestionFile call,    *)
(*               <<args>>, or <<>> when the file comes from elsewhere      *)
(*   pFile       the content of the question file, <<content>>, or <<>>    *)
(*               when the file does not exist                              *)
(*   pOut        what parseQuestionFile did: <<[threw, value]>>            *)
(*               (SpecLoad) pFile is the text of the state file and pOut   *)
(*               what `new StateManager()` did                             *)
(*   pRoute      what routeQuestion returned for pOut                      *)
(*   fFiles      (SpecFs) the directory of the state file or of a response *)
(*               file: the content of each file name, NoFile when absent   *)
(*   fPc         where the writing process is in saveState / writeResponse *)
(*   fDoc        the number of the document being written, or last written *)
(*   fTemp       the tempFile of the call in progress                      *)
(*   fNow        Date.now()                                                *)
(*   fSeen       what a reader of the file got, <<content>>                *)
(*   hCfg        (SpecHandle) the AgentConfig passed to spawnAgent         *)
(*   hProc       the subprocess: "none", "running", "zombie" (it has       *)
(*               ended and its close event is still to come), "closed"     *)
(*   hKilled     childProcess.killed                                       *)
(*   hSignals    the signals sent to the subprocess, in order              *)
(*   hTimers     how many setTimeout callbacks of kill() are pending       *)
(*   hResult     what handle.result settled to, <<AgentResult>>, or what   *)
(*               spawnAgent threw                                          *)
(*   hTerm       how many times handle.kill() was called                   *)
(*   hLast       what the last handle.kill() call found and did            *)
(*   hFired      what each timer callback found and did, in order          *)
(*   hAtClose    the close event, with the number of handle.kill() calls   *)
(*               and of signals sent before it, <<record>>                 *)
(***************************************************************************)
VARIABLES mem, disk, clock, lastCall, qs, rs,
          sIn, sPar, sFiles, sPc, sProc, sRes, sOrder, sOut,
          pc, isRunning, child, agentRes, handles, batch, todo, dIdx,
          prd, arch, runResult, starts, benign,
          wr, found,
          pIn, pFile, pOut, pRoute,
          fFiles, fPc, fDoc, fTemp, fNow, fSeen,
          hCfg, hProc, hKilled, hSignals, hTimers, hResult, hTerm, hLast, hFired, hAtClose

storeVars == <<mem, disk, clock, lastCall>>
qVars == <<qs, rs>>
schedVars == <<sIn, sPar, sFiles, sPc, sProc, sRes, sOrder, sOut>>
drvVars == <<pc, isRunning, child, agentRes, handles, batch, todo, dIdx,
             prd, arch, runResult, starts, benign>>
qwVars == <<wr, found>>
parseVars == <<pIn, pFile, pOut, pRoute>>
fsVars == <<fFiles, fPc, fDoc, fTemp, fNow, fSeen>>
hVars == <<hCfg, hProc, hKilled, hSignals, hTimers, hResult, hTerm, hLast, hFired, hAtClose>>
unitVars == <<qwVars, parseVars, fsVars, hVars>>
vars == <<storeVars, qVars, schedVars, drvVars, unitVars>>

(***************************************************************************)
(* state.ts: StateManager.  Each method is `this.state = f(this.state);    *)
(* this.save()`: when f throws, neither the assignment nor the save runs.  *)
(* The result is the manager's state, the file, and what was thrown.       *)
(***************************************************************************)
loadState(d) == d

StateManager_new_ignoreFile(d, now) == <<createInitialState(now)>>

\* constructor: this.state = state || loadState() || createInitialState()
StateManager_new(d, now) ==
  IF Len(loadState(d)) > 0 THEN loadState(d) ELSE <<createInitialState(now)>>

Saved(state, now) ==
  [mem |-> <<saveState(state, now)>>, disk |-> <<saveState(state, now)>>,
   threw |-> "none"]

Thrown(m, d, what) == [mem |-> m, disk |-> d, threw |-> what]

StateManager_transitionTo(m, d, newPhase, now) ==
  IF transitionPhaseThrows(m[1], newPhase) THEN Thrown(m, d, "StateError")
  ELSE Saved(transitionPhase(m[1], newPhase, now), now)

StateManager_setBlocked(m, d, blockedAgent, questionFile, waitingFor, now) ==
  Saved(setBlocked(m[1], blockedAgent, questionFile, waitingFor, now), now)

StateManager_clearBlocked(m, d, now) == Saved(clearBlocked(m[1], now), now)

StateManager_setCurrentAgent(m, d, agent, now) ==
  Saved(setCurrentAgent(m[1], agent, now), now)

StateManager_addDevSession(m, d, area, tickets, now) ==
  IF addDevSessionThrows(m[1], area) THEN Thrown(m, d, "StateError")
  ELSE Saved(addDevSession(m[1], area, tickets, now), now)

StateManager_updateDevSession(m, d, area, updates, now) ==
  IF updateDevSessionThrows(m[1], area) THEN Thrown(m, d, "StateError")
  ELSE Saved(updateDevSession(m[1], area, updates, now), now)

StateManager_removeDevSession(m, d, area, now) ==
  IF removeDevSessionThrows(m[1], area) THEN Thrown(m, d, "StateError")
  ELSE Saved(removeDevSession(m[1], area, now), now)

(***************************************************************************)
(* SpecStore: a client makes any sequence of StateManager calls, with      *)
(* arguments drawn from the parameter types.                               *)
(***************************************************************************)
Call(op, area, to, threw) == [op |-> op, area |-> area, to |-> to, threw |-> threw]

Apply(r, op, area, to) ==
  /\ mem' = r.mem
  /\ disk' = r.disk
  /\ lastCall' = Call(op, area, to, r.threw)
  /\ UNCHANGED <<clock, qVars, schedVars, unitVars, drvVars>>

AgentNames == {"po", "tech_lead"}

SessionUpdates ==
  [status : SessionStatuses] \cup [tickets : TicketLists]
    \cup [tickets : TicketLists, status : SessionStatuses]

StoreTransitionTo ==
  \E p \in Phases :
    Apply(StateManager_transitionTo(mem, disk, p, clock), "transitionTo", Null, p)

StoreSetBlocked ==
  \E a \in {"dev"}, w \in {"tech_lead"} :
    Apply(StateManager_setBlocked(mem, disk, a, 1, w, clock), "setBlocked", Null, Null)

StoreClearBlocked ==
  Apply(StateManager_clearBlocked(mem, disk, clock), "clearBlocked", Null, Null)

StoreSetCurrentAgent ==
  \E a \in {"po", Null} :
    Apply(StateManager_setCurrentAgent(mem, disk, a, clock), "setCurrentAgent", Null, Null)

StoreAddDevSession ==
  \E a \in Areas, t \in TicketLists :
    Apply(StateManager_addDevSession(mem, disk, a, t, clock), "addDevSession", a, Null)

StoreUpdateDevSession ==
  \E a \in Areas, u \in SessionUpdates :
    Apply(StateManager_updateDevSession(mem, disk, a, u, clock), "updateDevSession", a, Null)

StoreRemoveDevSession ==
  \E a \in Areas :
    Apply(StateManager_removeDevSession(mem, disk, a, clock), "removeDevSession", a, Null)

\* time passes between two calls
StoreTick ==
  /\ clock < MaxClock
  /\ clock' = clock + 1
  /\ lastCall' = Call("tick", Null, Null, "none")
  /\ UNCHANGED <<mem, disk, qVars, schedVars, unitVars, drvVars>>

\* the variables of the scheduler, when it is not running
SchedIdle ==
  /\ sIn = <<>>
  /\ sPar = TRUE
  /\ sFiles = TRUE
  /\ sPc = "idle"
  /\ sProc = <<>>
  /\ sRes = <<>>
  /\ sOrder = <<>>
  /\ sOut = [state |-> "pending", results |-> <<>>]

QEmpty ==
  /\ qs = <<>>
  /\ rs = <<>>

\* the variables of the driver, when there is no driver
DriverOff ==
  /\ pc = "off"
  /\ isRunning = FALSE
  /\ child = [kind |-> "none", asked |-> FALSE]
  /\ agentRes = <<>>
  /\ handles = <<>>
  /\ batch = <<>>
  /\ todo = <<>>
  /\ dIdx = 0
  /\ prd = FALSE
  /\ arch = FALSE
  /\ runResult = <<>>
  /\ starts = 0
  /\ benign = FALSE

\* no call of saveState or writeResponse is in progress
NoTemp == -1

\* the variables of SpecHandle, when there is no handle
HandleIdle ==
  /\ hCfg = <<>>
  /\ hProc = "none"
  /\ hKilled = FALSE
  /\ hSignals = <<>>
  /\ hTimers = 0
  /\ hResult = <<>>
  /\ hTerm = 0
  /\ hLast = <<>>
  /\ hFired = <<>>
  /\ hAtClose = <<>>

\* the variables of the component specifications, when those are not running
UnitsIdle ==
  /\ wr = <<>>
  /\ found = <<>>
  /\ pIn = <<>>
  /\ pFile = <<>>
  /\ pOut = <<>>
  /\ pRoute = Null
  /\ fFiles = <<>>
  /\ fPc = "off"
  /\ fDoc = 0
  /\ fTemp = NoTemp
  /\ fNow = 0
  /\ fSeen = <<>>
  /\ HandleIdle

InitStore ==
  /\ clock = 0
  /\ disk = <<>>
  /\ mem = StateManager_new(disk, clock)
  /\ lastCall = Call("new", Null, Null, "none")
  /\ QEmpty
  /\ SchedIdle
  /\ DriverOff
  /\ UnitsIdle

NextStore ==
  \/ StoreTransitionTo
  \/ StoreSetBlocked
  \/ StoreClearBlocked
  \/ StoreSetCurrentAgent
  \/ StoreAddDevSession
  \/ StoreUpdateDevSession
  \/ StoreRemoveDevSession
  \/ StoreTick

SpecStore == InitStore /\ [][NextStore]_vars


(***************************************************************************)
(* Claims about the state store, checked under SpecStore.                  *)
(***************************************************************************)
\* the fixed order of the phases, written out independently of the table
PhaseOrder ==
  <<"init", "po_conversation", "tech_lead_design", "dev_sessions", "completed">>

PhaseIndex(p) == CHOOSE i \in 1..Len(PhaseOrder) : PhaseOrder[i] = p

IsSuccessor(from, to) == PhaseIndex(to) = PhaseIndex(from) + 1

HasArea(state, area) ==
  \E i \in 1..Len(state.devSessions) : state.devSessions[i].area = area

NoDuplicateAreas(state) ==
  \A i, j \in 1..Len(state.devSessions) :
    state.devSessions[i].area = state.devSessions[j].area => i = j

\* the call of this step threw StateError and changed nothing, in memory or on disk
RejectedUnchanged ==
  /\ lastCall'.threw = "StateError"
  /\ mem' = mem
  /\ disk' = disk

\* C2: isValidTransition(from, to) is true iff `to` is the immediate successor of
\* `from` in the fixed order (completed has none); StateManager.transitionTo to the
\* successor moves the phase and saves it, and to any other phase throws StateError
\* and leaves the in-memory state and the state file unchanged.
C2_TransitionOnlyToSuccessor ==
  [][lastCall'.op = "transitionTo" =>
       LET from == mem[1].phase
           to == lastCall'.to
       IN /\ isValidTransition(from, to) <=> IsSuccessor(from, to)
          /\ IsSuccessor(from, to) =>
               /\ lastCall'.threw = "none"
               /\ mem'[1].phase = to
               /\ disk' = mem'
          /\ ~IsSuccessor(from, to) => RejectedUnchanged]_vars

\* C2 witness: a transition out of completed was attempted and rejected
C2_Witness ==
  /\ lastCall.op = "transitionTo"
  /\ lastCall.threw = "StateError"
  /\ mem[1].phase = "completed"
  /\ lastCall.to = "init"

\* C7: addDevSession with an area that already exists, and updateDevSession /
\* removeDevSession with an area that does not exist, throw StateError and leave
\* the state in memory and on disk exactly as it was before the call.
C7_RejectedSessionCallsChangeNothing ==
  [][/\ (lastCall'.op = "addDevSession" /\ HasArea(mem[1], lastCall'.area))
          => RejectedUnchanged
     /\ (lastCall'.op \in {"updateDevSession", "removeDevSession"}
           /\ ~HasArea(mem[1], lastCall'.area))
          => RejectedUnchanged]_vars

\* C7 witness: a second addDevSession for an existing area was rejected, with the
\* first one saved on disk
C7_Witness ==
  /\ lastCall.op = "addDevSession"
  /\ lastCall.threw = "StateError"
  /\ Len(disk) = 1
  /\ HasArea(disk[1], lastCall.area)

\* C8: devSessions never holds two entries with the same area, in memory or in the
\* state file, after any sequence of state store operations.
C8_NoDuplicateAreas ==
  /\ \A i \in 1..Len(mem) : NoDuplicateAreas(mem[i])
  /\ \A i \in 1..Len(disk) : NoDuplicateAreas(disk[i])

\* C8 witness: two sessions are stored and an addDevSession for one of their areas
\* has just been refused
C8_Witness ==
  /\ Len(disk) = 1
  /\ Len(disk[1].devSessions) = 2
  /\ lastCall.op = "addDevSession"
  /\ lastCall.threw = "StateError"


(***************************************************************************)
(* SpecSched: one call runDevSessions(sIn, {parallel: sPar}) of the        *)
(* session scheduler (src/unnamed/part_001), with its subprocesses.        *)
(***************************************************************************)
\* a batch holds at most MaxBatch sessions
MaxBatch == 2

\* the sessions a batch is made of; the last one has no ticket
SchedSessions ==
  {[area |-> a, tickets |-> <<1>>] : a \in Areas}
    \cup {[area |-> "frontend", tickets |-> <<>>]}

SeqsUpTo(S, n) == UNION {[1..k -> S] : k \in 0..n}

Pending(results) == [state |-> "pending", results |-> results]
Resolved(results) == [state |-> "resolved", results |-> results]
Rejected(what) == [state |-> what, results |-> <<>>]

\* the first session whose configuration spawnDevAgent refuses, 0 when none
FirstInvalid(sessions, filesPresent) ==
  IF \E i \in 1..Len(sessions) : DevConfigInvalid(sessions[i], filesPresent)
  THEN CHOOSE i \in 1..Len(sessions) :
         /\ DevConfigInvalid(sessions[i], filesPresent)
         /\ \A j \in 1..(i - 1) : ~DevConfigInvalid(sessions[j], filesPresent)
  ELSE 0

InitSched ==
  /\ clock = 0
  /\ disk = <<>>
  /\ mem = <<>>
  /\ lastCall = Call("none", Null, Null, "none")
  /\ QEmpty
  /\ DriverOff
  /\ UnitsIdle
  /\ sIn \in SeqsUpTo(SchedSessions, MaxBatch)
  /\ sPar \in BOOLEAN
  /\ sFiles \in BOOLEAN
  /\ sPc = "call"
  /\ sProc = [i \in 1..Len(sIn) |-> "unspawned"]
  /\ sRes = [i \in 1..Len(sIn) |-> <<>>]
  /\ sOrder = <<>>
  /\ sOut = Pending(<<>>)

\* runDevSessions with no session returns [] at once
SchedCallEmpty ==
  /\ sPc = "call"
  /\ Len(sIn) = 0
  /\ sPc' = "done"
  /\ sOut' = Resolved(<<>>)
  /\ UNCHANGED <<sIn, sPar, sFiles, sProc, sRes, sOrder, qVars, storeVars, drvVars, unitVars>>

\* parallel: sessions.map(spawnDevAgent) spawns in order and throws at the first
\* session it refuses, with the earlier ones already spawned
SchedSpawnAll ==
  /\ sPc = "call"
  /\ Len(sIn) > 0
  /\ sPar
  /\ LET k == FirstInvalid(sIn, sFiles)
     IN IF k = 0
        THEN /\ sProc' = [i \in 1..Len(sIn) |-> "running"]
             /\ sPc' = "await_all"
             /\ sOut' = sOut
        ELSE /\ sProc' = [i \in 1..Len(sIn) |-> IF i < k THEN "running" ELSE "unspawned"]
             /\ sPc' = "done"
             /\ sOut' = Rejected("DevAgentError")
  /\ UNCHANGED <<sIn, sPar, sFiles, sRes, sOrder, qVars, storeVars, drvVars, unitVars>>

\* sequential: `for (const session of sessions) await runDevAgent(session)`
SchedSeqSpawn ==
  /\ sPc \in {"call", "seq_next"}
  /\ Len(sIn) > 0
  /\ ~sPar
  /\ LET i == Len(sOut.results) + 1
     IN IF i > Len(sIn)
        THEN /\ sPc' = "done"
             /\ sOut' = Resolved(sOut.results)
             /\ sProc' = sProc
        ELSE IF DevConfigInvalid(sIn[i], sFiles)
        THEN /\ sPc' = "done"
             /\ sOut' = Rejected("DevAgentError")
             /\ sProc' = sProc
        ELSE /\ sPc' = "seq_wait"
             /\ sOut' = sOut
             /\ sProc' = [sProc EXCEPT ![i] = "running"]
  /\ UNCHANGED <<sIn, sPar, sFiles, sRes, sOrder, qVars, storeVars, drvVars, unitVars>>

\* a running dev agent writes a question file, at most one
SchedAgentAsk ==
  \E i \in 1..Len(sIn), for \in Recipients :
    /\ sProc[i] = "running"
    /\ Len(qs) < MaxQuestions
    /\ \A n \in 1..Len(qs) : qs[n].from # sIn[i].area
    /\ qs' = writeQuestionFile(qs, sIn[i].area, for, NextMtime(qs))
    /\ rs' = Append(rs, NoResponse)
    /\ UNCHANGED <<schedVars, unitVars, storeVars, drvVars>>

\* the subprocess of session i closes: agentHandle.result resolves and its
\* continuation builds the DevAgentResult from the store as it is now
SchedAgentClose ==
  \E i \in 1..Len(sIn), ev \in CloseEvents :
    \E latest \in findLatestUnansweredQuestion(qs, rs) :
      /\ sProc[i] = "running"
      /\ sProc' = [sProc EXCEPT ![i] = "closed"]
      /\ sRes' = [sRes EXCEPT ![i] =
                    <<toDevAgentResult(sIn[i].area, AgentResultOf(ev, FALSE), qs, latest)>>]
      /\ sOrder' = Append(sOrder, i)
      /\ UNCHANGED <<sIn, sPar, sFiles, sPc, sOut, qVars, storeVars, drvVars, unitVars>>

\* the operating system fails to create the subprocess of session i: the "error"
\* event rejects agentHandle.result with AgentSpawnError
SchedSpawnError ==
  \E i \in 1..Len(sIn) :
    /\ sProc[i] = "running"
    /\ sProc' = [sProc EXCEPT ![i] = "failed"]
    /\ UNCHANGED <<sIn, sPar, sFiles, sPc, sRes, sOrder, sOut, qVars, storeVars, drvVars, unitVars>>

\* parallel: Promise.all settles, rejected as soon as one result is rejected,
\* resolved when every result is
SchedAwaitAll ==
  /\ sPc = "await_all"
  /\ IF \E i \in 1..Len(sIn) : sProc[i] = "failed"
     THEN sOut' = Rejected("AgentSpawnError")
     ELSE /\ \A i \in 1..Len(sIn) : sRes[i] # <<>>
          /\ sOut' = Resolved(PromiseAll(sRes, sOrder))
  /\ sPc' = "done"
  /\ UNCHANGED <<sIn, sPar, sFiles, sProc, sRes, sOrder, qVars, storeVars, drvVars, unitVars>>

\* sequential: the awaited runDevAgent settles; its result is pushed
SchedSeqAwait ==
  /\ sPc = "seq_wait"
  /\ LET i == Len(sOut.results) + 1
     IN IF sProc[i] = "failed"
        THEN /\ sOut' = Rejected("AgentSpawnError")
             /\ sPc' = "done"
        ELSE /\ sRes[i] # <<>>
             /\ sOut' = Pending(Append(sOut.results, sRes[i][1]))
             /\ sPc' = "seq_next"
  /\ UNCHANGED <<sIn, sPar, sFiles, sProc, sRes, sOrder, qVars, storeVars, drvVars, unitVars>>

NextSched ==
  \/ SchedCallEmpty
  \/ SchedSpawnAll
  \/ SchedSeqSpawn
  \/ SchedAgentAsk
  \/ SchedAgentClose
  \/ SchedSpawnError
  \/ SchedAwaitAll
  \/ SchedSeqAwait

SpecSched == InitSched /\ [][NextSched]_vars

\* C4: when runDevSessions returns, it returns exactly one result per input
\* session, and result i is the result of session i (same area), in parallel and
\* in sequential mode, whatever order the subprocesses finished in.
C4_ResultsMatchInputOrder ==
  sOut.state = "resolved" =>
    /\ Len(sOut.results) = Len(sIn)
    /\ \A i \in 1..Len(sIn) : sOut.results[i].area = sIn[i].area

\* C4 witness: a parallel batch of two different areas returned, the second
\* session having finished first
C4_Witness ==
  /\ sOut.state = "resolved"
  /\ sPar
  /\ Len(sIn) = 2
  /\ sIn[1].area # sIn[2].area
  /\ sOrder = <<2, 1>>

(***************************************************************************)
(* Spec: the Orchestrator (src/unnamed/part_000) as a process that can be  *)
(* started with run or resume, killed, and started again.  Each action is  *)
(* the code between two points where the process can be interrupted with   *)
(* a different outcome: it ends with one write of the state file or of a   *)
(* response file, or at an await of a subprocess or of the user.  A killed *)
(* process takes its subprocesses with it.  The wall clock stands still.   *)
(***************************************************************************)
\* at most MaxStarts driver processes are started
MaxStarts == 2

\* at most MaxDisturb events come from outside in one run of the model: the
\* starts of a driver process and the questions the agents write
MaxDisturb == 3

\* the environment has an event left
CanDisturb == starts + Len(qs) < MaxDisturb

\* agent names: "po", "tech_lead" and `dev-${area}`
AgentName(prefix, area) == [prefix |-> prefix, area |-> area]

NoChild == [kind |-> "none", asked |-> FALSE]

Orchestrator_getBlockedAgentType_exact(agentName) ==
  IF agentName = AgentName("po", "") THEN "po"
  ELSE IF agentName = AgentName("tech_lead", "") THEN "tech_lead"
  ELSE IF agentName = AgentName("dev", "") THEN "dev"
  ELSE Null

\* Orchestrator.getBlockedAgentType: agentName.startsWith("dev")
Orchestrator_getBlockedAgentType(agentName) ==
  IF agentName = AgentName("po", "") THEN "po"
  ELSE IF agentName = AgentName("tech_lead", "") THEN "tech_lead"
  ELSE IF agentName.prefix = "dev" THEN "dev"
  ELSE Null

runPOAgent_status_noBlocked(agentResult) ==
  IF isSuccess(agentResult) THEN "success" ELSE "error"

\* the status runPOAgent gives an AgentResult
runPOAgent_status(agentResult) ==
  IF isSuccess(agentResult) THEN "success"
  ELSE IF isBlocked(agentResult) THEN "blocked"
  ELSE "error"

\* the status runTechLeadAgent gives an AgentResult
runTechLeadAgent_status(agentResult) ==
  IF isSuccess(agentResult) THEN "success"
  ELSE IF isBlocked(agentResult) THEN "blocked"
  ELSE "error"

OrchestratorResult_completed(state, success, error) ==
  <<[finalPhase |-> "completed", success |-> success, error |-> error]>>

\* the OrchestratorResult of run()
OrchestratorResult(state, success, error) ==
  <<[finalPhase |-> state.phase, success |-> success, error |-> error]>>

\* a StateManager call outside a try block: what it threw reaches the catch of run()
Step(r, nextPc) ==
  /\ mem' = r.mem
  /\ disk' = r.disk
  /\ IF r.threw = "none"
     THEN /\ pc' = nextPc
          /\ runResult' = runResult
     ELSE /\ pc' = "returned"
          /\ runResult' = OrchestratorResult(r.mem[1], FALSE, r.threw)

\* a call inside the try of poPhase / techLeadPhase: the catch block resets
\* currentAgent and rethrows
TryStep(r, nextPc) ==
  LET c == StateManager_setCurrentAgent(r.mem, r.disk, Null, clock)
  IN IF r.threw = "none"
     THEN /\ mem' = r.mem
          /\ disk' = r.disk
          /\ pc' = nextPc
          /\ runResult' = runResult
     ELSE /\ mem' = c.mem
          /\ disk' = c.disk
          /\ pc' = "returned"
          /\ runResult' = OrchestratorResult(c.mem[1], FALSE, r.threw)

WaitingForOf(routing) ==
  CASE routing = "prompt_user" -> "user"
    [] routing = "spawn_po" -> "po"
    [] routing = "spawn_tech_lead" -> "tech_lead"

\* handleBlockingQuestion up to its await: setBlocked, then processQuestion,
\* which prompts only when the question is routed to the user
handleBlockingQuestion(questionFile, agentName, promptPc, nextPc) ==
  LET routing == routeQuestion(parseQuestionFile(qs, questionFile))
      r == StateManager_setBlocked(mem, disk, Orchestrator_getBlockedAgentType(agentName),
                                   questionFile, WaitingForOf(routing), clock)
  IN /\ mem' = r.mem
     /\ disk' = r.disk
     /\ pc' = IF routing = "prompt_user" THEN promptPc ELSE nextPc
     /\ runResult' = runResult

\* handleBlockingForAgent: nothing happens when no question is unanswered
handleBlockingForAgent(agentType) ==
  \E questionFile \in findLatestUnansweredQuestion(qs, rs) :
    IF questionFile = NullFile
    THEN /\ pc' = "loop"
         /\ UNCHANGED <<mem, disk, runResult>>
    ELSE handleBlockingQuestion(questionFile, AgentName(agentType, ""),
                                "prompt_agent", "loop")

InitDriver ==
  /\ mem = <<>>
  /\ disk = <<>>
  /\ clock = 0
  /\ lastCall = Call("none", Null, Null, "none")
  /\ QEmpty
  /\ SchedIdle
  /\ DriverOff
  /\ UnitsIdle

\* `orchestrator run` / `orchestrator resume`: new Orchestrator(), whose
\* StateManager loads the state file, then run() up to its loop, or resume().
\* A resume after a kill may be the one from which all goes well.
StartProcess ==
  \E cmd \in {"run", "resume"}, b \in BOOLEAN :
    /\ pc \in {"off", "returned"}
    /\ ~benign
    /\ starts < MaxStarts
    /\ CanDisturb
    /\ b => (cmd = "resume" /\ pc = "off" /\ starts > 0)
    /\ mem' = StateManager_new(disk, clock)
    /\ starts' = starts + 1
    /\ benign' = b
    /\ runResult' = <<>>
    /\ pc' = IF cmd = "resume" THEN "resume" ELSE "loop"
    /\ isRunning' = (cmd = "run")
    /\ child' = NoChild
    /\ agentRes' = <<>>
    /\ handles' = <<>>
    /\ batch' = <<>>
    /\ todo' = <<>>
    /\ dIdx' = 0
    /\ UNCHANGED <<disk, clock, lastCall, qVars, schedVars, unitVars, prd, arch>>

\* resume(): handleBlockedState() when the loaded state is blocked, then run()
resume ==
  /\ pc = "resume"
  /\ LET state == mem[1]
         questionFile == state.blocked.questionFile
         cleared == StateManager_clearBlocked(mem, disk, clock)
         same == Thrown(mem, disk, "none")
         prompts == /\ state.blocked.isBlocked
                    /\ questionFile # NullFile
                    /\ ~Truthy(readResponse(rs, questionFile))
                    /\ routeQuestion(parseQuestionFile(qs, questionFile)) = "prompt_user"
         r == IF ~state.blocked.isBlocked THEN same
              ELSE IF questionFile = NullFile THEN cleared
              ELSE IF Truthy(readResponse(rs, questionFile)) THEN cleared
              ELSE same
     IN /\ Step(r, IF prompts THEN "prompt_resume" ELSE "loop")
        /\ isRunning' = ~prompts
  /\ UNCHANGED <<clock, lastCall, qVars, schedVars, unitVars,
                 child, agentRes, handles, batch, todo, dIdx, prd, arch, starts, benign>>

\* run(): while (this.isRunning && !this.stateManager.isComplete())
run ==
  /\ pc = "loop"
  /\ IF isRunning /\ mem[1].phase # "completed"
     THEN /\ pc' = "phase"
          /\ runResult' = runResult
     ELSE /\ pc' = "returned"
          /\ runResult' = IF mem[1].phase = "completed"
                          THEN OrchestratorResult(mem[1], TRUE, Null)
                          ELSE OrchestratorResult(mem[1], FALSE, "stopped")
  /\ UNCHANGED <<storeVars, qVars, schedVars, unitVars, isRunning,
                 child, agentRes, handles, batch, todo, dIdx, prd, arch, starts, benign>>

initPhase ==
  /\ pc = "phase"
  /\ mem[1].phase = "init"
  /\ Step(StateManager_transitionTo(mem, disk, "po_conversation", clock), "loop")
  /\ UNCHANGED <<clock, lastCall, qVars, schedVars, unitVars, isRunning,
                 child, agentRes, handles, batch, todo, dIdx, prd, arch, starts, benign>>

\* poPhase up to the await of runPOAgent
poPhase ==
  /\ pc = "phase"
  /\ mem[1].phase = "po_conversation"
  /\ Step(StateManager_setCurrentAgent(mem, disk, "po", clock), "po_wait")
  /\ child' = [kind |-> "po", asked |-> FALSE]
  /\ UNCHANGED <<clock, lastCall, qVars, schedVars, unitVars, isRunning,
                 agentRes, handles, batch, todo, dIdx, prd, arch, starts, benign>>

\* techLeadPhase up to the await of runTechLeadAgent, which throws
\* TechLeadAgentError when there is no PRD to read
techLeadPhase ==
  /\ pc = "phase"
  /\ mem[1].phase = "tech_lead_design"
  /\ LET r == StateManager_setCurrentAgent(mem, disk, "tech_lead", clock)
     IN IF prd
        THEN /\ Step(r, "tl_wait")
             /\ child' = [kind |-> "tech_lead", asked |-> FALSE]
        ELSE /\ TryStep(Thrown(r.mem, r.disk, "TechLeadAgentError"), "tl_wait")
             /\ child' = child
  /\ UNCHANGED <<clock, lastCall, qVars, schedVars, unitVars, isRunning,
                 agentRes, handles, batch, todo, dIdx, prd, arch, starts, benign>>

\* the PO or tech-lead agent writes a question file, at most one
AgentWritesQuestion ==
  \E for \in Recipients :
    /\ child.kind # "none"
    /\ ~child.asked
    /\ ~benign
    /\ Len(qs) < MaxQuestions
    /\ CanDisturb
    /\ qs' = writeQuestionFile(qs, AgentName(child.kind, ""), for, NextMtime(qs))
    /\ rs' = Append(rs, NoResponse)
    /\ child' = [child EXCEPT !.asked = TRUE]
    /\ UNCHANGED <<storeVars, schedVars, unitVars, pc, isRunning,
                   agentRes, handles, batch, todo, dIdx, prd, arch, runResult, starts, benign>>

\* the PO or tech-lead agent closes, having written its artifact or not:
\* runPOAgent / runTechLeadAgent resolve with the status and the artifact check
AgentCloses ==
  \E ev \in CloseEvents, made \in BOOLEAN :
    /\ pc \in {"po_wait", "tl_wait"}
    /\ benign => (ev = [code |-> EXIT_SUCCESS, signal |-> FALSE] /\ made)
    /\ LET agentResult == AgentResultOf(ev, FALSE)
       IN IF pc = "po_wait"
          THEN /\ prd' = (prd \/ made)
               /\ arch' = arch
               /\ agentRes' = <<[agent |-> "po", agentResult |-> agentResult,
                                 created |-> prd', status |-> runPOAgent_status(agentResult)]>>
               /\ pc' = "po_result"
          ELSE /\ arch' = (arch \/ made)
               /\ prd' = prd
               /\ agentRes' = <<[agent |-> "tech_lead", agentResult |-> agentResult,
                                 created |-> arch',
                                 status |-> runTechLeadAgent_status(agentResult)]>>
               /\ pc' = "tl_result"
    /\ child' = NoChild
    /\ UNCHANGED <<storeVars, qVars, schedVars, unitVars, isRunning,
                   handles, batch, todo, dIdx, runResult, starts, benign>>

\* the subprocess cannot be created: runAgent rejects with AgentSpawnError,
\* which the catch of the phase rethrows
AgentSpawnError ==
  /\ pc \in {"po_wait", "tl_wait"}
  /\ ~benign
  /\ TryStep(Thrown(mem, disk, "AgentSpawnError"), pc)
  /\ child' = NoChild
  /\ UNCHANGED <<clock, lastCall, qVars, schedVars, unitVars, isRunning,
                 agentRes, handles, batch, todo, dIdx, prd, arch, starts, benign>>

\* poPhase after the await
poPhase_result ==
  /\ pc = "po_result"
  /\ LET result == agentRes[1]
     IN IF result.status = "success" /\ result.created
        THEN TryStep(StateManager_setCurrentAgent(mem, disk, Null, clock), "po_adv")
        ELSE IF result.status = "blocked"
        THEN handleBlockingForAgent("po")
        ELSE TryStep(Thrown(mem, disk, "Error"), pc)
  /\ agentRes' = <<>>
  /\ UNCHANGED <<clock, lastCall, qVars, schedVars, unitVars, isRunning,
                 child, handles, batch, todo, dIdx, prd, arch, starts, benign>>

\* poPhase: transitionTo("tech_lead_design")
poPhase_transition ==
  /\ pc = "po_adv"
  /\ TryStep(StateManager_transitionTo(mem, disk, "tech_lead_design", clock), "loop")
  /\ UNCHANGED <<clock, lastCall, qVars, schedVars, unitVars, isRunning,
                 child, agentRes, handles, batch, todo, dIdx, prd, arch, starts, benign>>

\* promptUser resolves with the trimmed line the user typed, and
\* processQuestion writes it to the response file
promptUser ==
  \E answer \in Answers :
    /\ pc \in {"prompt_agent", "prompt_dev", "prompt_resume"}
    /\ benign => Truthy(answer)
    /\ rs' = writeResponse(rs, mem[1].blocked.questionFile, answer)
    /\ pc' = CASE pc = "prompt_agent" -> "answered_agent"
               [] pc = "prompt_dev" -> "answered_dev"
               [] pc = "prompt_resume" -> "answered_resume"
    /\ UNCHANGED <<storeVars, qs, schedVars, unitVars, isRunning,
                   child, agentRes, handles, batch, todo, dIdx, prd, arch, runResult,
                   starts, benign>>

\* after processQuestion: `if (result.response) this.stateManager.clearBlocked()`;
\* result.response is the answer just written
processQuestion_result ==
  /\ pc \in {"answered_agent", "answered_dev", "answered_resume"}
  /\ LET response == readResponse(rs, mem[1].blocked.questionFile)
         r == IF Truthy(response) THEN StateManager_clearBlocked(mem, disk, clock)
              ELSE Thrown(mem, disk, "none")
     IN Step(r, IF pc = "answered_dev" THEN "dev_pend" ELSE "loop")
  /\ isRunning' = IF pc = "answered_resume" THEN TRUE ELSE isRunning
  /\ UNCHANGED <<clock, lastCall, qVars, schedVars, unitVars,
                 child, agentRes, handles, batch, todo, dIdx, prd, arch, starts, benign>>

\* the driver process is killed; its subprocesses die with it
Kill ==
  /\ pc \notin {"off", "returned"}
  /\ ~benign
  /\ starts < MaxStarts
  /\ CanDisturb
  /\ pc' = "off"
  /\ mem' = <<>>
  /\ isRunning' = FALSE
  /\ child' = NoChild
  /\ agentRes' = <<>>
  /\ handles' = <<>>
  /\ batch' = <<>>
  /\ todo' = <<>>
  /\ dIdx' = 0
  /\ runResult' = <<>>
  /\ UNCHANGED <<disk, clock, lastCall, qVars, schedVars, unitVars, prd, arch, starts, benign>>

\* what the issue tracker holds when the tech lead is done: the area labels,
\* and for each area its issues
GhAreaLists == {<<>>, <<"frontend">>, <<"backend">>, <<"frontend", "backend">>}

GhIssueLists ==
  {<<>>, <<[number |-> 1, state |-> "closed"]>>, <<[number |-> 1, state |-> "open"]>>}

IsOpen(issue) == issue.state = "open"

RECURSIVE parseAreasFromIssues_all(_, _)
parseAreasFromIssues_all(areas, issuesOf) ==
  IF areas = <<>> THEN <<>>
  ELSE LET openIssues == SelectSeq(issuesOf[Head(areas)], IsOpen)
       IN <<[area |-> Head(areas),
             ticketNumbers |-> [k \in 1..Len(openIssues) |-> openIssues[k].number]]>>
            \o parseAreasFromIssues_all(Tail(areas), issuesOf)

\* parseAreasFromIssues: the areas that have an open issue, with its numbers
RECURSIVE parseAreasFromIssues(_, _)
parseAreasFromIssues(areas, issuesOf) ==
  IF areas = <<>> THEN <<>>
  ELSE LET openIssues == SelectSeq(issuesOf[Head(areas)], IsOpen)
           rest == parseAreasFromIssues(Tail(areas), issuesOf)
       IN IF Len(openIssues) > 0
          THEN <<[area |-> Head(areas),
                  ticketNumbers |-> [k \in 1..Len(openIssues) |-> openIssues[k].number]]>>
                 \o rest
          ELSE rest

areasToDevSessionInput(areasWithIssues) ==
  [k \in 1..Len(areasWithIssues) |->
     [area |-> areasWithIssues[k].area, tickets |-> areasWithIssues[k].ticketNumbers]]

\* techLeadPhase after the await: on success with the architecture file, the
\* session inputs are read from the issue tracker
techLeadPhase_result ==
  /\ pc = "tl_result"
  /\ LET result == agentRes[1]
     IN IF result.status = "success" /\ result.created
        THEN \E areas \in GhAreaLists, issuesOf \in [Areas -> GhIssueLists] :
               /\ todo' = areasToDevSessionInput(parseAreasFromIssues(areas, issuesOf))
               /\ pc' = "tl_add"
               /\ UNCHANGED <<mem, disk, runResult>>
        ELSE IF result.status = "blocked"
        THEN /\ handleBlockingForAgent("tech_lead")
             /\ todo' = todo
        ELSE /\ TryStep(Thrown(mem, disk, "Error"), pc)
             /\ todo' = todo
  /\ agentRes' = <<>>
  /\ UNCHANGED <<clock, lastCall, qVars, schedVars, unitVars, isRunning,
                 child, handles, batch, dIdx, prd, arch, starts, benign>>

\* techLeadPhase: one addDevSession of the loop, then setCurrentAgent(null)
techLeadPhase_addDevSession ==
  /\ pc = "tl_add"
  /\ IF todo = <<>>
     THEN /\ TryStep(StateManager_setCurrentAgent(mem, disk, Null, clock), "tl_adv")
          /\ todo' = todo
     ELSE /\ TryStep(StateManager_addDevSession(mem, disk, Head(todo).area,
                                                Head(todo).tickets, clock), "tl_add")
          /\ todo' = Tail(todo)
  /\ UNCHANGED <<clock, lastCall, qVars, schedVars, unitVars, isRunning,
                 child, agentRes, handles, batch, dIdx, prd, arch, starts, benign>>

\* techLeadPhase: transitionTo("dev_sessions")
techLeadPhase_transition ==
  /\ pc = "tl_adv"
  /\ TryStep(StateManager_transitionTo(mem, disk, "dev_sessions", clock), "loop")
  /\ UNCHANGED <<clock, lastCall, qVars, schedVars, unitVars, isRunning,
                 child, agentRes, handles, batch, todo, dIdx, prd, arch, starts, benign>>

AllCompleted(sessions) == \A k \in 1..Len(sessions) : sessions[k].status = "completed"

\* devSessionsPhase up to its loop over the pending sessions; with none
\* pending, on into monitorDevSessions
devSessionsPhase ==
  /\ pc = "phase"
  /\ mem[1].phase = "dev_sessions"
  /\ LET pendingSessions == getDevSessionsByStatus(mem[1], "pending")
         runningSessions == getDevSessionsByStatus(mem[1], "running")
         completes == StateManager_transitionTo(mem, disk, "completed", clock)
     IN IF Len(pendingSessions) = 0 /\ Len(runningSessions) = 0
        THEN /\ Step(completes, "loop")
             /\ UNCHANGED <<batch, todo, dIdx>>
        ELSE IF Len(pendingSessions) > 0
        THEN /\ batch' = [k \in 1..Len(pendingSessions) |->
                            [area |-> pendingSessions[k].area,
                             tickets |-> pendingSessions[k].tickets]]
             /\ todo' = pendingSessions
             /\ pc' = "dev_mark"
             /\ UNCHANGED <<mem, disk, runResult, dIdx>>
        ELSE IF Len(handles) > 0
        THEN /\ pc' = "dev_wait"
             /\ dIdx' = 1
             /\ UNCHANGED <<mem, disk, runResult, batch, todo>>
        ELSE IF AllCompleted(mem[1].devSessions)
        THEN /\ Step(completes, "loop")
             /\ UNCHANGED <<batch, todo, dIdx>>
        ELSE /\ pc' = "loop"
             /\ UNCHANGED <<mem, disk, runResult, batch, todo, dIdx>>
  /\ UNCHANGED <<clock, lastCall, qVars, schedVars, unitVars, isRunning,
                 child, agentRes, handles, prd, arch, starts, benign>>

\* devSessionsPhase: one updateDevSession of the marking loop, then
\* spawnDevSessions, which throws at the first session it refuses
devSessionsPhase_spawn ==
  /\ pc = "dev_mark"
  /\ IF todo # <<>>
     THEN /\ Step(StateManager_updateDevSession(mem, disk, Head(todo).area,
                                                [status |-> "running"], clock), "dev_mark")
          /\ todo' = Tail(todo)
          /\ UNCHANGED <<handles, dIdx, batch>>
     ELSE IF FirstInvalid(batch, prd /\ arch) # 0
     THEN /\ Step(Thrown(mem, disk, "DevAgentError"), pc)
          /\ UNCHANGED <<todo, handles, dIdx, batch>>
     ELSE /\ handles' = [k \in 1..Len(batch) |->
                           [area |-> batch[k].area, proc |-> "running",
                            asked |-> FALSE, result |-> <<>>]]
          /\ pc' = "dev_wait"
          /\ dIdx' = 1
          /\ batch' = <<>>
          /\ UNCHANGED <<mem, disk, runResult, todo>>
  /\ UNCHANGED <<clock, lastCall, qVars, schedVars, unitVars, isRunning,
                 child, agentRes, prd, arch, starts, benign>>

\* a running dev agent writes a question file, at most one
DevAgentWritesQuestion ==
  \E i \in 1..Len(handles), for \in Recipients :
    /\ handles[i].proc = "running"
    /\ ~handles[i].asked
    /\ ~benign
    /\ Len(qs) < MaxQuestions
    /\ CanDisturb
    /\ qs' = writeQuestionFile(qs, AgentName("dev", handles[i].area), for, NextMtime(qs))
    /\ rs' = Append(rs, NoResponse)
    /\ handles' = [handles EXCEPT ![i].asked = TRUE]
    /\ UNCHANGED <<storeVars, schedVars, unitVars, pc, isRunning,
                   child, agentRes, batch, todo, dIdx, prd, arch, runResult, starts, benign>>

\* the subprocess of handle i closes: its result promise resolves with the
\* DevAgentResult built from the question store as it is now
DevAgentCloses ==
  \E i \in 1..Len(handles), ev \in CloseEvents :
    \E latest \in findLatestUnansweredQuestion(qs, rs) :
      /\ handles[i].proc = "running"
      /\ benign => ev = [code |-> EXIT_SUCCESS, signal |-> FALSE]
      /\ handles' = [handles EXCEPT
                       ![i].proc = "closed",
                       ![i].asked = FALSE,
                       ![i].result = <<toDevAgentResult(handles[i].area,
                                                        AgentResultOf(ev, FALSE), qs, latest)>>]
      /\ UNCHANGED <<storeVars, qVars, schedVars, unitVars, pc, isRunning,
                     child, agentRes, batch, todo, dIdx, prd, arch, runResult, starts, benign>>

\* the subprocess of handle i cannot be created: its result promise rejects,
\* and with it the Promise.all that monitorDevSessions awaits; run() returns
\* the error and the process ends, its handles with it
DevAgentSpawnError ==
  \E i \in 1..Len(handles) :
    /\ pc = "dev_wait"
    /\ handles[i].proc = "running"
    /\ ~benign
    /\ handles' = <<>>
    /\ Step(Thrown(mem, disk, "AgentSpawnError"), pc)
    /\ UNCHANGED <<clock, lastCall, qVars, schedVars, unitVars, isRunning,
                   child, agentRes, batch, todo, dIdx, prd, arch, starts, benign>>

PromiseAllResolved_first(results) == results[1] # <<>>

\* `await Promise.all(...)` goes on when every promise has resolved
PromiseAllResolved(results) == \A i \in 1..Len(results) : results[i] # <<>>

\* the results the loop of monitorDevSessions has still to walk: those of the
\* handles from dIdx on
MonitorResults ==
  PromiseAll([i \in 1..(Len(handles) - dIdx + 1) |-> handles[dIdx + i - 1].result],
             [i \in 1..(Len(handles) - dIdx + 1) |-> i])

\* the loop moves on from results[i], which nothing reads again
NextResult ==
  /\ handles' = [handles EXCEPT ![dIdx].result = <<>>]
  /\ dIdx' = dIdx + 1

\* monitorDevSessions: once Promise.all has resolved, the loop body for
\* results[i], up to the await of handleBlockingQuestion
monitorDevSessions_result ==
  /\ pc \in {"dev_wait", "dev_proc"}
  /\ dIdx <= Len(handles)
  /\ PromiseAllResolved([i \in 1..(Len(handles) - dIdx + 1) |-> handles[dIdx + i - 1].result])
  /\ LET result == MonitorResults[1]
         update(status) ==
           StateManager_updateDevSession(mem, disk, result.area, [status |-> status], clock)
     IN IF result.status = "success"
        THEN /\ Step(update("completed"), "dev_proc")
             /\ NextResult
        ELSE IF result.status = "blocked"
        THEN IF result.questionFile # NullFile
             THEN /\ Step(update("blocked"), "dev_hb")
                  /\ UNCHANGED <<handles, dIdx>>
             ELSE /\ Step(update("blocked"), "dev_proc")
                  /\ NextResult
        ELSE /\ NextResult
             /\ pc' = "dev_proc"
             /\ UNCHANGED <<mem, disk, runResult>>
  /\ UNCHANGED <<clock, lastCall, qVars, schedVars, unitVars, isRunning,
                 child, agentRes, batch, todo, prd, arch, starts, benign>>

\* monitorDevSessions: handleBlockingQuestion(result.questionFile, `dev-${result.area}`)
monitorDevSessions_blocking ==
  /\ pc = "dev_hb"
  /\ handleBlockingQuestion(MonitorResults[1].questionFile,
                            AgentName("dev", MonitorResults[1].area),
                            "prompt_dev", "dev_pend")
  /\ UNCHANGED <<clock, lastCall, qVars, schedVars, unitVars, isRunning,
                 child, agentRes, handles, batch, todo, dIdx, prd, arch, starts, benign>>

\* monitorDevSessions: the blocked session is marked pending, to be retried
monitorDevSessions_pending ==
  /\ pc = "dev_pend"
  /\ Step(StateManager_updateDevSession(mem, disk, MonitorResults[1].area,
                                        [status |-> "pending"], clock), "dev_proc")
  /\ NextResult
  /\ UNCHANGED <<clock, lastCall, qVars, schedVars, unitVars, isRunning,
                 child, agentRes, batch, todo, prd, arch, starts, benign>>

\* monitorDevSessions after the loop: the handles are dropped, and the phase
\* completes when no session is left that is not completed
monitorDevSessions_finish ==
  /\ pc = "dev_proc"
  /\ dIdx > Len(handles)
  /\ handles' = <<>>
  /\ dIdx' = 0
  /\ IF AllCompleted(mem[1].devSessions)
     THEN Step(StateManager_transitionTo(mem, disk, "completed", clock), "loop")
     ELSE /\ pc' = "loop"
          /\ UNCHANGED <<mem, disk, runResult>>
  /\ UNCHANGED <<clock, lastCall, qVars, schedVars, unitVars, isRunning,
                 child, agentRes, batch, todo, prd, arch, starts, benign>>

Next ==
  \/ StartProcess
  \/ resume
  \/ run
  \/ initPhase
  \/ poPhase
  \/ AgentWritesQuestion
  \/ AgentCloses
  \/ AgentSpawnError
  \/ poPhase_result
  \/ poPhase_transition
  \/ techLeadPhase
  \/ techLeadPhase_result
  \/ techLeadPhase_addDevSession
  \/ techLeadPhase_transition
  \/ devSessionsPhase
  \/ devSessionsPhase_spawn
  \/ DevAgentWritesQuestion
  \/ DevAgentCloses
  \/ DevAgentSpawnError
  \/ monitorDevSessions_result
  \/ monitorDevSessions_blocking
  \/ monitorDevSessions_pending
  \/ monitorDevSessions_finish
  \/ promptUser
  \/ processQuestion_result
  \/ Kill

Spec == InitDriver /\ [][Next]_vars

\* The steps the event loop, the subprocesses and the user at the prompt take
\* by themselves; killing and starting the process, and an agent's choice to
\* write a question, are left to the environment.
DriverStep ==
  \/ resume
  \/ run
  \/ initPhase
  \/ poPhase
  \/ AgentCloses
  \/ poPhase_result
  \/ poPhase_transition
  \/ techLeadPhase
  \/ techLeadPhase_result
  \/ techLeadPhase_addDevSession
  \/ techLeadPhase_transition
  \/ devSessionsPhase
  \/ devSessionsPhase_spawn
  \/ DevAgentCloses
  \/ monitorDevSessions_result
  \/ monitorDevSessions_blocking
  \/ monitorDevSessions_pending
  \/ monitorDevSessions_finish
  \/ promptUser
  \/ processQuestion_result

\* Spec, where a process that can take a step does not stand still for ever
FairSpec == InitDriver /\ [][Next]_vars /\ WF_vars(DriverStep)

(***************************************************************************)
(* Claims about the Orchestrator, checked under Spec and FairSpec.         *)
(***************************************************************************)
\* the phase a state file holds; a missing file is no prior state
PersistedPhase(d) == IF d = <<>> THEN "init" ELSE d[1].phase

\* the phase the workflow is in: the live process's, else the persisted one
CurrentPhase(m, d) == IF m # <<>> THEN m[1].phase ELSE PersistedPhase(d)

Advances(p, q) == p = q \/ IsSuccessor(p, q)

\* C1: in every run of the Orchestrator (run or resume, any agent outcomes,
\* across kills and restarts) the in-memory phase and the persisted phase
\* change only from a phase to its immediate successor: never backward, never
\* skipping a phase, and never again once completed.
C1_PhaseOnlyAdvancesByOne ==
  [][/\ Advances(CurrentPhase(mem, disk), CurrentPhase(mem', disk'))
     /\ Advances(PersistedPhase(disk), PersistedPhase(disk'))]_vars

\* C1 witness: a killed and resumed workflow has walked to completed
C1_Witness ==
  /\ starts = 2
  /\ pc = "returned"
  /\ runResult[1].success
  /\ PersistedPhase(disk) = "completed"
  /\ CurrentPhase(mem, disk) = "completed"

\* an agent result whose status is the one its exit code stands for
Classified(result) ==
  /\ result.status = "success" <=> result.agentResult.exitCode = EXIT_SUCCESS
  /\ result.status = "blocked" <=> result.agentResult.exitCode = EXIT_BLOCKED
  /\ result.status = "error" <=> result.agentResult.exitCode \notin {EXIT_SUCCESS, EXIT_BLOCKED}
  /\ result.status \in {"success", "blocked", "error"}

\* C5: every PO, tech-lead and dev outcome is classified success iff its exit
\* code is 0, blocked iff it is 2, and error for every other exit code; each
\* outcome has exactly one of the three statuses.
C5_StatusFollowsExitCode ==
  /\ \A k \in 1..Len(agentRes) : Classified(agentRes[k])
  /\ \A i \in 1..Len(handles) :
       \A k \in 1..Len(handles[i].result) : Classified(handles[i].result[k])

\* C5 witness: a PO or tech-lead agent exited blocked, and the dev agents of a
\* batch of two exited with an unknown code and with success
C5_Witness ==
  /\ Len(handles) = 2
  /\ handles[1].result # <<>>
  /\ handles[2].result # <<>>
  /\ handles[1].result[1].agentResult.exitCode = 3
  /\ handles[1].result[1].status = "error"
  /\ handles[2].result[1].status = "success"
  /\ \E n \in 1..Len(qs) : qs[n].from.prefix \in {"po", "tech_lead"}

\* the blocked tuple is the unblocked one, or has all of its fields set
BlockedConsistent(state) ==
  IF state.blocked.isBlocked
  THEN /\ state.blocked.blockedAgent # Null
       /\ state.blocked.questionFile # NullFile
       /\ state.blocked.waitingFor # Null
  ELSE /\ state.blocked.blockedAgent = Null
       /\ state.blocked.questionFile = NullFile
       /\ state.blocked.waitingFor = Null

AllTicketed(state) ==
  \A k \in 1..Len(state.devSessions) : Len(state.devSessions[k].tickets) > 0

C3_ResumedRunCompletes ==
  [](benign => <>(/\ pc = "returned"
                  /\ runResult[1].success
                  /\ PersistedPhase(disk) = "completed"))

\* C10: a response is write-once: no response file that exists is ever
\* written again.
C10_ResponseWrittenOnce ==
  \A n \in 1..Len(rs) : ~rs[n].rewritten


(***************************************************************************)
(* SpecQ: the question/response store (src/src/blocking.ts) with the agent *)
(* processes that write question files into it while the driver looks for  *)
(* the latest unanswered one and answers it.  writeQuestionFile is two     *)
(* steps of the file system: the directory is read for the next name, then *)
(* the file is written and renamed to it; other processes run in between.  *)
(***************************************************************************)
\* the store holds at most MaxFiles question files
MaxFiles == 2

\* the agent processes that write questions
QWriters == {"dev-frontend", "dev-backend"}

\* the greatest modification time in the store, 0 when it is empty
LastMtime(files) ==
  IF files = <<>> THEN 0
  ELSE CHOOSE m \in {files[n].mtime : n \in 1..Len(files)} :
         \A n \in 1..Len(files) : files[n].mtime <= m

InitQ ==
  /\ clock = 0
  /\ disk = <<>>
  /\ mem = <<>>
  /\ lastCall = Call("none", Null, Null, "none")
  /\ QEmpty
  /\ SchedIdle
  /\ DriverOff
  /\ wr = [w \in QWriters |-> [pc |-> "idle", filePath |-> NullFile]]
  /\ found = <<>>
  /\ pIn = <<>>
  /\ pFile = <<>>
  /\ pOut = <<>>
  /\ pRoute = Null
  /\ fFiles = <<>>
  /\ fPc = "off"
  /\ fDoc = 0
  /\ fTemp = NoTemp
  /\ fNow = 0
  /\ fSeen = <<>>
  /\ HandleIdle

\* writeQuestionFile: const filePath = generateQuestionFileName()
QGenerateName ==
  \E w \in QWriters :
    /\ wr[w].pc = "idle"
    /\ Len(qs) < MaxFiles
    /\ wr' = [wr EXCEPT ![w] = [pc |-> "named", filePath |-> generateQuestionFileName(qs)]]
    /\ UNCHANGED <<found, qVars, storeVars, schedVars, drvVars, parseVars, fsVars, hVars>>

\* writeQuestionFile: the temp file is written and renamed to filePath, and the
\* path is returned; the file's time is that of the latest file, or later.  The
\* questions are for the user: neither the name nor the search reads the recipient
QRename ==
  \E w \in QWriters :
    \E mtime \in {m \in {LastMtime(qs), LastMtime(qs) + 1} : m > 0} :
      /\ wr[w].pc = "named"
      /\ qs' = renameQuestionFile(qs, wr[w].filePath, w, "user", mtime)
      /\ rs' = IF wr[w].filePath <= Len(rs) THEN rs ELSE Append(rs, NoResponse)
      /\ wr' = [wr EXCEPT ![w].pc = "returned"]
      /\ UNCHANGED <<found, storeVars, schedVars, drvVars, parseVars, fsVars, hVars>>

\* the agent goes on, and may ask again
QGoOn ==
  \E w \in QWriters :
    /\ wr[w].pc = "returned"
    /\ wr' = [wr EXCEPT ![w] = [pc |-> "idle", filePath |-> NullFile]]
    /\ UNCHANGED <<found, qVars, storeVars, schedVars, drvVars, parseVars, fsVars, hVars>>

\* the driver calls findLatestUnansweredQuestion()
QFind ==
  \E f \in findLatestUnansweredQuestion(qs, rs) :
    /\ found # <<f>>
    /\ found' = <<f>>
    /\ UNCHANGED <<wr, qVars, storeVars, schedVars, drvVars, parseVars, fsVars, hVars>>

\* the driver answers the question it found: writeResponse(questionFile, answer)
QRespond ==
  /\ found # <<>>
  /\ found[1] # NullFile
  /\ rs' = writeResponse(rs, found[1], "yes")
  /\ found' = <<>>
  /\ UNCHANGED <<wr, qs, storeVars, schedVars, drvVars, parseVars, fsVars, hVars>>

NextQ ==
  \/ QGenerateName
  \/ QRename
  \/ QGoOn
  \/ QFind
  \/ QRespond

SpecQ == InitQ /\ [][NextQ]_vars

\* C11: no two writeQuestionFile calls return the same path, also when the
\* calls are made by agent processes running at the same time: two agents that
\* have both returned from their call hold different paths (so neither wrote
\* over the other's question file).
C11_SequenceNumbersUnique ==
  \A v, w \in QWriters :
    (v # w /\ wr[v].pc = "returned" /\ wr[w].pc = "returned")
      => wr[v].filePath # wr[w].filePath

\* the question files without a response file
Unanswered(responses) == {n \in 1..Len(qs) : ~responses[n].exists}

\* f is a most recently modified file among `open`, or null when there is none
MostRecentOf(f, open) ==
  IF open = {} THEN f = NullFile
  ELSE /\ f \in open
       /\ \A k \in open : qs[k].mtime <= qs[f].mtime

\* C12: whatever the store holds, findLatestUnansweredQuestion returns a most
\* recently modified question file among those without a response, and null
\* iff there is none; and once writeResponse has answered the file it returned,
\* the next call returns a most recently modified one among the others without
\* a response, or null.
C12_LatestUnanswered ==
  \A f \in findLatestUnansweredQuestion(qs, rs) :
    /\ MostRecentOf(f, Unanswered(rs))
    /\ f = NullFile <=> \A n \in 1..Len(qs) : rs[n].exists
    /\ f # NullFile =>
         \A g \in findLatestUnansweredQuestion(qs, writeResponse(rs, f, "yes")) :
           MostRecentOf(g, Unanswered(rs) \ {f})

\* C12 witness: q-001 was modified after q-002 and has been answered, and the
\* call that followed returned q-002
C12_Witness ==
  /\ Len(qs) = 2
  /\ qs[1].mtime > qs[2].mtime
  /\ rs[1].exists
  /\ ~rs[2].exists
  /\ found = <<2>>


(***************************************************************************)
(* SpecParse: one question file (src/src/blocking.ts), written by          *)
(* writeQuestionFile or by an agent in its own words, then read by         *)
(* parseQuestionFile and routed by routeQuestion.                          *)
(***************************************************************************)
\* a file that writeQuestionFile did not write has at most MaxLines lines
MaxLines == 3

\* the strings passed as context and as question: empty, a word, two lines,
\* a word after a space, and lines that read as headers
Texts ==
  { <<>>, <<"a">>, <<"a", "\n", "b">>, <<" ", "a">>,
    <<"#", "#", " ", "For:", " ", "po">>, <<"#", "#", " ", "Notes">> }

\* the agent names passed as fromAgent
FromTexts == { <<"dev">>, <<"dev", " ">>, <<>> }

\* the option lists: none, one, two, an empty option, an option of two lines
OptionLists ==
  { <<>>, << <<"a">> >>, << <<"a">>, <<"b">> >>, << <<>> >>,
    << <<"a", "\n", "b">> >> }

QuestionInputs ==
  [fromAgent : FromTexts, forRecipient : Recipients, context : Texts,
   question : Texts, options : OptionLists]

\* the lines of a file an agent wrote itself
RawLines ==
  { <<>>, <<"a">>, <<" ", "b", " ">>,
    <<"#", "#", "For:", " ", "PO", " ">>,
    <<"#", "#", " ", "For:", " ", "bogus">>,
    <<"#", " ", "Question from:", " ", "dev">>,
    <<"#", "#", " ", "Context">>,
    <<"#", "#", " ", "Question">>,
    <<"#", "#", " ", "Options">>,
    <<"#", "#", " ", "Notes">> }

RawContents == {join(ls, "\n") : ls \in SeqsUpTo(RawLines, MaxLines)}

NotThrown(value) == [threw |-> "none", value |-> value]

InitParse ==
  /\ clock = 0
  /\ disk = <<>>
  /\ mem = <<>>
  /\ lastCall = Call("none", Null, Null, "none")
  /\ QEmpty
  /\ SchedIdle
  /\ DriverOff
  /\ wr = <<>>
  /\ found = <<>>
  /\ pIn \in {<<>>} \cup {<<i>> : i \in QuestionInputs}
  /\ pFile \in IF pIn = <<>> THEN {<<>>} \cup {<<c>> : c \in RawContents} ELSE {<<>>}
  /\ pOut = <<>>
  /\ pRoute = Null
  /\ fFiles = <<>>
  /\ fPc = "off"
  /\ fDoc = 0
  /\ fTemp = NoTemp
  /\ fNow = 0
  /\ fSeen = <<>>
  /\ HandleIdle

\* writeQuestionFile(fromAgent, forRecipient, context, question, options)
ParseWrite ==
  /\ pIn # <<>>
  /\ pFile = <<>>
  /\ pFile' = <<questionFileContent(pIn[1].fromAgent, pIn[1].forRecipient,
                                    pIn[1].context, pIn[1].question, pIn[1].options)>>
  /\ UNCHANGED <<pIn, pOut, pRoute, storeVars, qVars, schedVars, drvVars, qwVars, fsVars, hVars>>

\* parseQuestionFile(filePath): throws when the file does not exist
ParseFile ==
  /\ pOut = <<>>
  /\ pIn = <<>> \/ pFile # <<>>
  /\ pOut' = IF pFile = <<>>
             THEN <<[threw |-> "BlockingError", value |-> Null]>>
             ELSE <<NotThrown(parseContent(pFile[1]))>>
  /\ UNCHANGED <<pIn, pFile, pRoute, storeVars, qVars, schedVars, drvVars, qwVars, fsVars, hVars>>

\* routeQuestion(parsedQuestion)
ParseRoute ==
  /\ pOut # <<>>
  /\ pOut[1].threw = "none"
  /\ pRoute = Null
  /\ pRoute' = routeQuestion(pOut[1].value)
  /\ UNCHANGED <<pIn, pFile, pOut, storeVars, qVars, schedVars, drvVars, qwVars, fsVars, hVars>>

NextParse ==
  \/ ParseWrite
  \/ ParseFile
  \/ ParseRoute

SpecParse == InitParse /\ [][NextParse]_vars

\* C13: a question file written by writeQuestionFile parses back to the
\* fromAgent, forRecipient, context, question and options that were written.
C13_RoundTrip ==
  (pIn # <<>> /\ pOut # <<>>) =>
    /\ pOut[1].threw = "none"
    /\ pOut[1].value.fromAgent = pIn[1].fromAgent
    /\ pOut[1].value.forRecipient = pIn[1].forRecipient
    /\ pOut[1].value.context = pIn[1].context
    /\ pOut[1].value.question = pIn[1].question
    /\ pOut[1].value.options = pIn[1].options

\* a line that opens a section: a "##" line that is neither the From nor a For line
SectionHeader(line) ==
  fromMatch(line) = <<>> /\ forMatch(line) = <<>> /\ sectionMatch(line) # <<>>

SectionNameOf(line) == toLowerCase(trim(sectionMatch(line)[1]))

Recognized(line) ==
  \/ includes(SectionNameOf(line), "context")
  \/ includes(SectionNameOf(line), "question")
  \/ includes(SectionNameOf(line), "option")

\* line k is in the body of a section whose header is not recognized
InUnrecognizedSection(lines, k) ==
  /\ fromMatch(lines[k]) = <<>>
  /\ forMatch(lines[k]) = <<>>
  /\ sectionMatch(lines[k]) = <<>>
  /\ \E h \in 1..(k - 1) :
       /\ SectionHeader(lines[h])
       /\ ~Recognized(lines[h])
       /\ \A j \in (h + 1)..(k - 1) : ~SectionHeader(lines[j])

\* no For line of the file names one of the three recipients
NoKnownRecipient(lines) ==
  \A k \in 1..Len(lines) :
    \/ fromMatch(lines[k]) # <<>>
    \/ forMatch(lines[k]) = <<>>
    \/ toLowerCase(trim(forMatch(lines[k])[1])) \notin {<<"user">>, <<"po">>, <<"tech_lead">>}

\* the file has no question section
NoQuestionSection(lines) ==
  \A k \in 1..Len(lines) :
    SectionHeader(lines[k]) =>
      \/ includes(SectionNameOf(lines[k]), "context")
      \/ ~includes(SectionNameOf(lines[k]), "question")

WithoutLine(lines, k) ==
  SubSeq(lines, 1, k - 1) \o SubSeq(lines, k + 1, Len(lines))

\* C14: parsing an existing question file does not throw and yields a recipient
\* among user, po and tech_lead: user when no For line names one of the three,
\* the empty question when the file has no question section, and the same
\* context, question and options as the file without any one line of the body
\* of an unrecognized section.
C14_MalformedFilesParse ==
  (pFile # <<>> /\ pOut # <<>>) =>
    LET lines == split(pFile[1], "\n")
        parsed == pOut[1].value
    IN /\ pOut[1].threw = "none"
       /\ parsed.forRecipient \in {"user", "po", "tech_lead"}
       /\ NoKnownRecipient(lines) => parsed.forRecipient = "user"
       /\ NoQuestionSection(lines) => parsed.question = <<>>
       /\ \A k \in 1..Len(lines) :
            InUnrecognizedSection(lines, k) =>
              LET other == parseContent(join(WithoutLine(lines, k), "\n"))
              IN /\ other.context = parsed.context
                 /\ other.question = parsed.question
                 /\ other.options = parsed.options

\* C14 witness: a file an agent wrote with `For: bogus`, no question section
\* and a line under `## Notes` has been parsed
C14_Witness ==
  /\ pIn = <<>>
  /\ pFile # <<>>
  /\ pOut # <<>>
  /\ LET lines == split(pFile[1], "\n")
     IN /\ \E k \in 1..Len(lines) : forMatch(lines[k]) = << <<" ", "bogus">> >>
        /\ \E k \in 1..Len(lines) : InUnrecognizedSection(lines, k) /\ lines[k] # <<>>
        /\ NoQuestionSection(lines)

\* the parsed questions that differ from p in all but the recipient
SameRecipient(p) ==
  [fromAgent : FromTexts, forRecipient : {p.forRecipient}, context : Texts,
   question : Texts, options : OptionLists]

\* C15: the routing is decided by forRecipient alone: user gives prompt_user, po
\* gives spawn_po, tech_lead gives spawn_tech_lead, and every question with the
\* same forRecipient gets the same routing whatever its fromAgent, context,
\* question and options.
C15_RoutingByRecipientOnly ==
  pRoute # Null =>
    /\ pOut[1].value.forRecipient = "user" => pRoute = "prompt_user"
    /\ pOut[1].value.forRecipient = "po" => pRoute = "spawn_po"
    /\ pOut[1].value.forRecipient = "tech_lead" => pRoute = "spawn_tech_lead"
    /\ \A q \in SameRecipient(pOut[1].value) : routeQuestion(q) = pRoute

\* C15 witness: a question for the tech lead, with a context, a question text
\* and options, has been routed
C15_Witness ==
  /\ pRoute = "spawn_tech_lead"
  /\ pOut[1].value.fromAgent # <<>>
  /\ pOut[1].value.context # <<>>
  /\ pOut[1].value.question # <<>>
  /\ pOut[1].value.options # <<>>


(***************************************************************************)
(* SpecFs: the directory of the state file (saveState, src/src/state.ts)   *)
(* or of a response file (writeResponse, src/src/blocking.ts).  Both write *)
(* `${file}.tmp.${Date.now()}` and rename it to the file.  writeFileSync   *)
(* is not one step of the file system: the temp file exists with part of   *)
(* its content before it has all of it.  The writing process can be killed *)
(* between any two steps and another started; a reader (loadState,         *)
(* readResponse) runs at any time.                                         *)
(***************************************************************************)
\* at most MaxSaves documents are written
MaxSaves == 3
\* Date.now() takes the values 0..MaxNow
MaxNow == 1

\* the file names of the directory: the file itself, and its temp files
TargetFile == 0

tempFile_inPlace(now) == TargetFile

\* const tempFile = `${STATE_FILE}.tmp.${Date.now()}`
tempFile(now) == now + 1

NoContent == [exists |-> FALSE, doc |-> 0, complete |-> FALSE]

InitFs ==
  /\ clock = 0
  /\ disk = <<>>
  /\ mem = <<>>
  /\ lastCall = Call("none", Null, Null, "none")
  /\ QEmpty
  /\ SchedIdle
  /\ DriverOff
  /\ wr = <<>>
  /\ found = <<>>
  /\ pIn = <<>>
  /\ pFile = <<>>
  /\ pOut = <<>>
  /\ pRoute = Null
  /\ fFiles = [n \in 0..(MaxNow + 1) |-> NoContent]
  /\ fPc = "idle"
  /\ fDoc = 0
  /\ fTemp = NoTemp
  /\ fNow = 0
  /\ fSeen = <<>>
  /\ HandleIdle

\* saveState / writeResponse: fs.writeFileSync(tempFile, content) creates or
\* truncates the temp file and starts to write
FsWriteBegin ==
  /\ fPc \in {"idle", "done"}
  /\ fDoc < MaxSaves
  /\ fDoc' = fDoc + 1
  /\ fTemp' = tempFile(fNow)
  /\ fFiles' = [fFiles EXCEPT ![fTemp'] = [exists |-> TRUE, doc |-> fDoc', complete |-> FALSE]]
  /\ fPc' = "opened"
  /\ UNCHANGED <<fNow, fSeen, storeVars, qVars, schedVars, drvVars, qwVars, parseVars, hVars>>

\* fs.writeFileSync returns: the temp file has all of the content
FsWriteEnd ==
  /\ fPc = "opened"
  /\ fFiles' = [fFiles EXCEPT ![fTemp].complete = TRUE]
  /\ fPc' = "written"
  /\ UNCHANGED <<fDoc, fTemp, fNow, fSeen, storeVars, qVars, schedVars, drvVars, qwVars, parseVars, hVars>>

\* fs.renameSync(tempFile, file): one step; the call then returns
FsRename ==
  /\ fPc = "written"
  /\ fFiles' = IF fTemp = TargetFile THEN fFiles
               ELSE [fFiles EXCEPT ![TargetFile] = fFiles[fTemp], ![fTemp] = NoContent]
  /\ fPc' = "done"
  /\ UNCHANGED <<fDoc, fTemp, fNow, fSeen, storeVars, qVars, schedVars, drvVars, qwVars, parseVars, hVars>>

\* the writing process is killed inside the call (or writeFileSync throws, the
\* disk being full); a process started later makes the next call
FsKill ==
  /\ fPc \in {"opened", "written"}
  /\ fPc' = "idle"
  /\ fTemp' = NoTemp
  /\ UNCHANGED <<fFiles, fDoc, fNow, fSeen, storeVars, qVars, schedVars, drvVars, qwVars, parseVars, hVars>>

\* loadState / readResponse in another process: the content of the file, if
\* it exists
FsRead ==
  /\ fSeen # <<fFiles[TargetFile]>>
  /\ fSeen' = <<fFiles[TargetFile]>>
  /\ UNCHANGED <<fFiles, fPc, fDoc, fTemp, fNow, storeVars, qVars, schedVars, drvVars, qwVars, parseVars, hVars>>

\* a millisecond passes
FsTick ==
  /\ fNow < MaxNow
  /\ fNow' = fNow + 1
  /\ UNCHANGED <<fFiles, fPc, fDoc, fTemp, fSeen, storeVars, qVars, schedVars, drvVars, qwVars, parseVars, hVars>>

NextFs ==
  \/ FsWriteBegin
  \/ FsWriteEnd
  \/ FsRename
  \/ FsKill
  \/ FsRead
  \/ FsTick

SpecFs == InitFs /\ [][NextFs]_vars

\* the temp files in the directory
TempArtifacts == {n \in DOMAIN fFiles : n # TargetFile /\ fFiles[n].exists}

MaxTerminate == 2

\* the configurations passed to spawnAgent
AgentConfigs ==
  [name : {"", " ", "po"},
   promptFile : {"", "missing.md", "prompts/po.md"},
   stdio : {"inherit", "pipe", "ignore"}]

\* fs.existsSync(promptFile)
PromptFileExists(promptFile) == promptFile = "prompts/po.md"

\* str.trim() === ""
IsBlank(str) == str \in {"", " "}

\* validateConfig throws AgentSpawnError
validateConfigThrows(config) ==
  \/ IsBlank(config.name)
  \/ IsBlank(config.promptFile)
  \/ ~PromptFileExists(config.promptFile)
  \/ config.stdio \notin {"inherit", "pipe"}

\* childProcess.kill(signal) of Node: the signal is sent while the process has
\* not been reaped, and childProcess.killed is set when a signal was sent
ChildProcess_kill(proc, killed) ==
  [sent |-> proc \in {"running", "zombie"},
   killed |-> killed \/ proc \in {"running", "zombie"}]

\* the code of the close event that follows a failed spawn (a negative errno)
SpawnFailedCode == -2

settle_lastWins(promise, outcome) == <<outcome>>

\* resolve / reject of `new Promise`: the first call settles the promise, and
\* a later call changes nothing
settle(promise, outcome) == IF promise = <<>> THEN <<outcome>> ELSE promise

InitHandle ==
  /\ clock = 0
  /\ disk = <<>>
  /\ mem = <<>>
  /\ lastCall = Call("none", Null, Null, "none")
  /\ QEmpty
  /\ SchedIdle
  /\ DriverOff
  /\ wr = <<>>
  /\ found = <<>>
  /\ pIn = <<>>
  /\ pFile = <<>>
  /\ pOut = <<>>
  /\ pRoute = Null
  /\ fFiles = <<>>
  /\ fPc = "off"
  /\ fDoc = 0
  /\ fTemp = NoTemp
  /\ fNow = 0
  /\ fSeen = <<>>
  /\ hCfg \in {<<c>> : c \in AgentConfigs}
  /\ hProc = "none"
  /\ hKilled = FALSE
  /\ hSignals = <<>>
  /\ hTimers = 0
  /\ hResult = <<>>
  /\ hTerm = 0
  /\ hLast = <<>>
  /\ hFired = <<>>
  /\ hAtClose = <<>>

\* spawnAgent(config): validateConfig, then spawn("claude", ...), which
\* creates the process or fails to
spawnAgent ==
  /\ hProc = "none"
  /\ hResult = <<>>
  /\ IF validateConfigThrows(hCfg[1])
     THEN /\ hResult' = <<[threw |-> "AgentSpawnError", value |-> Null]>>
          /\ hProc' = hProc
     ELSE /\ hResult' = hResult
          /\ hProc' \in {"running", "failed"}
  /\ UNCHANGED <<hCfg, hKilled, hSignals, hTimers, hTerm, hLast, hFired, hAtClose,
                 storeVars, qVars, schedVars, drvVars, qwVars, parseVars, fsVars>>

\* handle.kill()
kill ==
  /\ hProc # "none"
  /\ hTerm < MaxTerminate
  /\ hTerm' = hTerm + 1
  /\ IF ~hKilled
     THEN LET k == ChildProcess_kill(hProc, hKilled)
          IN /\ hSignals' = IF k.sent THEN Append(hSignals, "SIGTERM") ELSE hSignals
             /\ hKilled' = k.killed
             /\ hTimers' = hTimers + 1
             /\ hLast' = <<[proc |-> hProc, sent |-> k.sent, scheduled |-> TRUE]>>
     ELSE /\ hLast' = <<[proc |-> hProc, sent |-> FALSE, scheduled |-> FALSE]>>
          /\ UNCHANGED <<hSignals, hKilled, hTimers>>
  /\ UNCHANGED <<hCfg, hProc, hResult, hFired, hAtClose,
                 storeVars, qVars, schedVars, drvVars, qwVars, parseVars, fsVars>>

\* the callback of setTimeout(..., 5000) in kill()
kill_timeout ==
  /\ hTimers > 0
  /\ hTimers' = hTimers - 1
  /\ IF ~hKilled
     THEN LET k == ChildProcess_kill(hProc, hKilled)
          IN /\ hSignals' = IF k.sent THEN Append(hSignals, "SIGKILL") ELSE hSignals
             /\ hKilled' = k.killed
             /\ hFired' = Append(hFired, [proc |-> hProc, sent |-> k.sent])
     ELSE /\ hFired' = Append(hFired, [proc |-> hProc, sent |-> FALSE])
          /\ UNCHANGED <<hSignals, hKilled>>
  /\ UNCHANGED <<hCfg, hProc, hResult, hTerm, hLast, hAtClose,
                 storeVars, qVars, schedVars, drvVars, qwVars, parseVars, fsVars>>

\* the subprocess ends: it exits with a code, or a signal ends it
ChildEnds ==
  \E ev \in CloseEvents :
    /\ hProc = "running"
    /\ hProc' = "zombie"
    /\ hAtClose' = <<[ev |-> ev, signals |-> Len(hSignals), terms |-> hTerm]>>
    /\ UNCHANGED <<hCfg, hKilled, hSignals, hTimers, hResult, hTerm, hLast, hFired,
                   storeVars, qVars, schedVars, drvVars, qwVars, parseVars, fsVars>>

\* childProcess.on("error") after a failed spawn: handle.result rejects; the
\* close event follows
ChildError ==
  /\ hProc = "failed"
  /\ hProc' = "errored"
  /\ hResult' = settle(hResult, [threw |-> "AgentSpawnError", value |-> Null])
  /\ hAtClose' = <<[ev |-> [code |-> SpawnFailedCode, signal |-> FALSE],
                    signals |-> Len(hSignals), terms |-> hTerm]>>
  /\ UNCHANGED <<hCfg, hKilled, hSignals, hTimers, hTerm, hLast, hFired,
                 storeVars, qVars, schedVars, drvVars, qwVars, parseVars, fsVars>>

\* childProcess.on("close"): handle.result resolves
ChildCloses ==
  /\ hProc \in {"zombie", "errored"}
  /\ hProc' = "closed"
  /\ hResult' = settle(hResult, [threw |-> "none",
                                 value |-> AgentResultOf(hAtClose[1].ev, hKilled)])
  /\ hAtClose' = <<[hAtClose[1] EXCEPT !.terms = hTerm]>>
  /\ UNCHANGED <<hCfg, hKilled, hSignals, hTimers, hTerm, hLast, hFired,
                 storeVars, qVars, schedVars, drvVars, qwVars, parseVars, fsVars>>

NextHandle ==
  \/ spawnAgent
  \/ kill
  \/ kill_timeout
  \/ ChildEnds
  \/ ChildError
  \/ ChildCloses

SpecHandle == InitHandle /\ [][NextHandle]_vars

\* C17: handle.kill() on a subprocess that has ended, by an earlier kill() or by
\* itself, sends no signal and schedules no forced kill, and a second call does
\* nothing more than the first did.
C17_TerminateIdempotent ==
  hLast # <<>> =>
    /\ hLast[1].proc \in {"zombie", "closed"} =>
         (~hLast[1].sent /\ ~hLast[1].scheduled)
    /\ hTerm >= 2 => (~hLast[1].sent /\ ~hLast[1].scheduled)

\* C18: when the grace window of a kill() that sent SIGTERM has elapsed and
\* the subprocess has not ended, SIGKILL is sent to it; when it has ended by
\* then, no SIGKILL is sent.
C18_ForcedKillAfterGrace ==
  \A i \in 1..Len(hFired) :
    /\ hFired[i].proc = "running" => hFired[i].sent
    /\ hFired[i].proc \in {"zombie", "closed"} => ~hFired[i].sent

C20_NoPartialSpawn ==
  (sPar /\ sOut.state = "DevAgentError") =>
    \A i \in 1..Len(sIn) : sProc[i] = "unspawned"

\* C21: the result promise of a handle, once settled, never changes; and when
\* the process could not be created it is rejected with AgentSpawnError, also
\* after the close event that follows the error event.
C21_SpawnErrorSettlesOnce ==
  [][/\ hResult # <<>> => hResult' = hResult
     /\ (hAtClose' # <<>> /\ hAtClose'[1].ev.code = SpawnFailedCode) =>
          hResult' = <<[threw |-> "AgentSpawnError", value |-> Null]>>]_vars

\* C21 witness: the spawn failed, the error and the close event have both been
\* handled, and the result is the rejection
C21_Witness ==
  /\ hProc = "closed"
  /\ hAtClose[1].ev.code = SpawnFailedCode
  /\ hResult = <<[threw |-> "AgentSpawnError", value |-> Null]>>


(***************************************************************************)
(* SpecStop: the Orchestrator of Spec, with the stop signal.  The handler  *)
(* of SIGINT / SIGTERM runs stop() and then process.exit(0); the agent     *)
(* subprocesses are processes of their own, and one that was sent no       *)
(* signal goes on running when the driver has exited.                      *)
(***************************************************************************)
\* handle.agentHandle.kill() for each handle of activeHandles.devSessions:
\* the handles whose subprocess is still running after the loop
RECURSIVE stop_kill(_)
stop_kill(activeHandles) ==
  IF activeHandles = <<>> THEN <<>>
  ELSE LET k == ChildProcess_kill(Head(activeHandles).proc, FALSE)
       IN (IF k.sent THEN <<>> ELSE <<Head(activeHandles)>>)
            \o stop_kill(Tail(activeHandles))

\* the shutdown handler: stop(), then process.exit(0).  The PO and tech-lead
\* subprocess is held by no handle list (runAgent returns only the result).
stop ==
  /\ pc \notin {"off", "returned"}
  /\ ~benign
  /\ isRunning' = FALSE
  /\ handles' = SelectSeq(stop_kill(handles), LAMBDA h : h.proc = "running")
  /\ child' = child
  /\ pc' = "off"
  /\ mem' = <<>>
  /\ agentRes' = <<>>
  /\ batch' = <<>>
  /\ todo' = <<>>
  /\ dIdx' = 0
  /\ runResult' = <<>>
  /\ UNCHANGED <<disk, clock, lastCall, qVars, schedVars, unitVars, prd, arch, starts, benign>>

NextStop ==
  \/ Next
  \/ stop

SpecStop == InitDriver /\ [][NextStop]_vars

\* C22: when the driver has exited on a stop signal, no agent subprocess that
\* was active at the signal is left running: the PO agent, the tech-lead agent
\* and every running dev session were terminated.
C22_StopTerminatesEveryAgent ==
  pc = "off" =>
    /\ child.kind = "none"
    /\ \A i \in 1..Len(handles) : handles[i].proc # "running"


(***************************************************************************)
(* Claims about the phases of the Orchestrator, checked under Spec.        *)
(***************************************************************************)
\* run() has returned from its catch block
FatalResult(res) ==
  /\ res # <<>>
  /\ ~res[1].success
  /\ res[1].error \notin {Null, "stopped"}

\* C23: the step on which run() returns a fatal error leaves the persisted
\* phase as it was, and the finalPhase it returns is the phase that was
\* executing, which is also the persisted phase.
C23_FatalErrorKeepsPhase ==
  [][(~FatalResult(runResult) /\ FatalResult(runResult')) =>
       /\ PersistedPhase(disk') = PersistedPhase(disk)
       /\ runResult'[1].finalPhase = mem[1].phase
       /\ runResult'[1].finalPhase = PersistedPhase(disk')]_vars

\* C23 witness: the tech-lead agent failed, run() has returned the error, and
\* the state file is still in phase tech_lead_design
C23_Witness ==
  /\ pc = "returned"
  /\ FatalResult(runResult)
  /\ runResult[1].error = "Error"
  /\ runResult[1].finalPhase = "tech_lead_design"
  /\ PersistedPhase(disk) = "tech_lead_design"

\* the state file shows part of the completion of tech-lead design: sessions
\* are seeded, and the phase is still tech_lead_design
HalfSeeded(state) == state.phase = "tech_lead_design" /\ state.devSessions # <<>>

\* the state file shows part of the start of a batch: a session of the batch
\* is marked running, and spawnDevSessions has not been called yet
HalfStarted(state) ==
  /\ pc = "dev_mark"
  /\ \E k \in 1..Len(state.devSessions), b \in 1..Len(batch) :
       /\ state.devSessions[k].area = batch[b].area
       /\ state.devSessions[k].status = "running"

\* C24: the state file never shows a half-applied step: no persisted state has
\* phase tech_lead_design with seeded sessions, and none has a session of a
\* batch marked running before the subprocesses of the batch are spawned.
C24_NoHalfAppliedStep ==
  \A k \in 1..Len(disk) : ~HalfSeeded(disk[k]) /\ ~HalfStarted(disk[k])

\* poPhase goes on after the await of runPOAgent (the process is not killed)
PoResultStep == pc = "po_result" /\ pc' \notin {"off", "po_result"}

\* C25: in phase po_conversation, after the PO agent has exited: on exit code 0
\* with the PRD present currentAgent becomes null and then the phase becomes
\* tech_lead_design; on exit code 2 the phase stays po_conversation and no
\* error is raised; in every other case run() returns a fatal error and the
\* phase stays po_conversation.
C25_PoPhaseOutcomes ==
  [][/\ PoResultStep =>
          LET result == agentRes[1]
              code == result.agentResult.exitCode
          IN /\ mem[1].phase = "po_conversation"
             /\ mem'[1].phase = "po_conversation"
             /\ PersistedPhase(disk') = "po_conversation"
             /\ (code = EXIT_SUCCESS /\ result.created) =>
                  (pc' = "po_adv" /\ mem'[1].currentAgent = Null /\ ~FatalResult(runResult'))
             /\ code = EXIT_BLOCKED =>
                  (pc' \in {"loop", "prompt_agent"} /\ ~FatalResult(runResult'))
             /\ (code # EXIT_BLOCKED /\ ~(code = EXIT_SUCCESS /\ result.created)) =>
                  (pc' = "returned" /\ FatalResult(runResult'))
     /\ (pc = "po_adv" /\ pc' # "off") =>
          /\ pc' = "loop"
          /\ mem'[1].phase = "tech_lead_design"
          /\ mem'[1].currentAgent = Null
          /\ disk' = mem']_vars

\* C25 witness: the PO agent exited 0 without a PRD, and run() has returned
\* the fatal error in phase po_conversation
C25_Witness ==
  /\ pc = "returned"
  /\ FatalResult(runResult)
  /\ runResult[1].finalPhase = "po_conversation"
  /\ ~prd
  /\ disk[1].currentAgent = Null

AreasOf(sessions) == [k \in 1..Len(sessions) |-> sessions[k].area]

NoDuplicates(seq) == \A i, j \in 1..Len(seq) : seq[i] = seq[j] => i = j

AllPending(sessions) == \A k \in 1..Len(sessions) : sessions[k].status = "pending"

\* C26: after the tech-lead agent has exited success with the architecture
\* present, while the sessions are seeded and when currentAgent is cleared, the
\* sessions in the state together with those still to add are one pending
\* session for each area that has an open issue; the phase then becomes
\* dev_sessions with exactly these sessions.
C26_TechLeadSeedsSessions ==
  /\ pc \in {"tl_add", "tl_adv"} =>
       /\ NoDuplicates(AreasOf(mem[1].devSessions) \o AreasOf(todo))
       /\ AllPending(mem[1].devSessions)
       /\ mem[1].phase = "tech_lead_design"
  /\ (pc = "returned" /\ FatalResult(runResult)) => runResult[1].error # "StateError"

\* the session of an area in a list of sessions (the areas are distinct)
SessionOf(sessions, area) ==
  LET found_ == SelectSeq(sessions, LAMBDA x : x.area = area)
  IN IF found_ = <<>> THEN <<>> ELSE <<Head(found_)>>

\* the driver holds a subprocess for the area, or is about to spawn one: a
\* handle whose result the monitoring loop has not walked yet, or a session of
\* the batch being started
HasSubprocess(p, hs, idx, b, area) ==
  \/ \E i \in 1..Len(hs) : i >= idx /\ hs[i].area = area
  \/ p = "dev_mark" /\ \E k \in 1..Len(b) : b[k].area = area

\* the monitoring loop walks a result and moves on to the next
ResultWalked == pc \in {"dev_wait", "dev_proc"} /\ pc' = "dev_proc" /\ dIdx' = dIdx + 1

\* C27: in phase dev_sessions a success result sets the session of its area to
\* completed and an error result leaves it running; and a session that is
\* running with no subprocess left to wait for (its agent ended in error, or
\* died with an earlier driver) stays running and gets no subprocess again.
C27_ErrorStaysRunningNoRetry ==
  [][/\ ResultWalked =>
          LET result == handles[dIdx].result[1]
              code == result.agentResult.exitCode
          IN /\ code = EXIT_SUCCESS =>
                  SessionOf(mem'[1].devSessions, result.area)[1].status = "completed"
             /\ code \notin {EXIT_SUCCESS, EXIT_BLOCKED} =>
                  /\ mem' = mem /\ disk' = disk
                  /\ SessionOf(mem[1].devSessions, result.area)[1].status = "running"
     /\ \A k \in 1..Len(disk) : \A n \in 1..Len(disk[k].devSessions) :
          LET s == disk[k].devSessions[n]
          IN (s.status = "running" /\ ~HasSubprocess(pc, handles, dIdx, batch, s.area)) =>
               /\ disk'[k].devSessions[n] = s
               /\ ~HasSubprocess(pc', handles', dIdx', batch', s.area)]_vars

\* C27 witness: of a batch of two, one agent ended in error and the other
\* asked a question that was answered; the second is spawned again alone,
\* while the first is still running in the state file
C27_Witness ==
  /\ pc = "dev_wait"
  /\ Len(handles) = 1
  /\ Len(disk[1].devSessions) = 2
  /\ \E n \in 1..2 :
       /\ disk[1].devSessions[n].status = "running"
       /\ disk[1].devSessions[n].area # handles[1].area
  /\ \E n \in 1..Len(rs) : rs[n].exists

\* C28: when the driver sets the session of a blocked result back to pending,
\* a response to the question of that result has been recorded, whichever of
\* prompt_user, spawn_po and spawn_tech_lead the question is routed to.
C28_PendingOnlyAfterResponse ==
  pc = "dev_pend" => hasResponse(rs, MonitorResults[1].questionFile)

\* a question the dev agent of the area wrote has a response
QuestionAnswered(area) ==
  \E n \in 1..Len(qs) : qs[n].from = AgentName("dev", area) /\ hasResponse(rs, n)

\* C29: a DevSession in status blocked whose question has been answered does
\* not stay blocked for ever: the workflow is not completed, after which no
\* status changes again, while such a session is in the state file.
C29_AnsweredSessionNotLeftBlocked ==
  \A k \in 1..Len(disk) :
    disk[k].phase = "completed" =>
      \A n \in 1..Len(disk[k].devSessions) :
        ~(/\ disk[k].devSessions[n].status = "blocked"
          /\ QuestionAnswered(disk[k].devSessions[n].area))

\* C30: in every state whose phase is completed, in memory and in the state
\* file, every DevSession has status completed.
C30_CompletedOnlyWhenAllCompleted ==
  /\ \A k \in 1..Len(mem) : mem[k].phase = "completed" => AllCompleted(mem[k].devSessions)
  /\ \A k \in 1..Len(disk) : disk[k].phase = "completed" => AllCompleted(disk[k].devSessions)

(***************************************************************************)
(* Claims about resuming, batches and blocked states, checked under Spec,  *)
(* SpecStop and FairSpec.                                                  *)
(***************************************************************************)
\* C31: on resume with a persisted blocked state whose question already has a
\* response file, whatever its text, the driver clears blocked and goes on
\* without prompting anyone: it never waits at the prompt of
\* handleBlockedState for a question whose response file exists.
C31_ResumeAnsweredNoPrompt ==
  pc = "prompt_resume" => ~hasResponse(rs, mem[1].blocked.questionFile)

\* a live driver holds the session of the area as running, and holds no
\* subprocess for it and is not about to spawn one
RunningAbandoned(area) ==
  /\ mem # <<>>
  /\ mem[1].phase = "dev_sessions"
  /\ SessionOf(mem[1].devSessions, area) # <<>>
  /\ SessionOf(mem[1].devSessions, area)[1].status = "running"
  /\ ~HasSubprocess(pc, handles, dIdx, batch, area)

\* C32: after a kill that left sessions persisted as running, when the
\* workflow is resumed and nothing goes wrong from then on, a subprocess is
\* eventually spawned for every session the resumed driver finds running with
\* no subprocess.
C32_AbandonedSessionsRestart ==
  \A area \in Areas :
    [](benign /\ RunningAbandoned(area)
         => <>HasSubprocess(pc, handles, dIdx, batch, area))

\* the driver is past the await of monitorDevSessions, applying the results
AfterAwait == pc \in {"dev_proc", "dev_hb", "dev_pend", "prompt_dev", "answered_dev"}

SomeRunning(hs) == \E i \in 1..Len(hs) : hs[i].proc = "running"

UnansweredQuestions(questions, responses) ==
  {n \in 1..Len(questions) : ~hasResponse(responses, n)}

\* a DevAgentResult built when the question store was (questions, responses)
DevResultWellFormed(result, questions, responses) ==
  /\ result.questionFile # NullFile => result.status = "blocked"
  /\ result.status \in {"success", "error"} =>
       (result.questionFile = NullFile /\ ~result.needsTechLead)
  /\ result.status = "blocked" =>
       /\ result.questionFile \in findLatestUnansweredQuestion(questions, responses)
       /\ result.questionFile = NullFile <=> UnansweredQuestions(questions, responses) = {}
  /\ result.needsTechLead <=>
       /\ result.status = "blocked"
       /\ UnansweredQuestions(questions, responses) # {}
       /\ routeQuestion(parseQuestionFile(questions, result.questionFile)) = "spawn_tech_lead"

\* C34: every DevAgentResult, when the result promise of its handle resolves:
\* questionFile is non-null only if the status is blocked; needsTechLead is
\* true iff the status is blocked, an unanswered question exists and the latest
\* unanswered question is routed to the tech lead; success and error results
\* carry questionFile null and needsTechLead false.
C34_DevResultFields ==
  [][\A i \in 1..Len(handles) :
       (Len(handles') = Len(handles) /\ handles[i].result = <<>> /\ handles'[i].result # <<>>)
         => DevResultWellFormed(handles'[i].result[1], qs, rs)]_vars

\* C34 witness: of a batch of two, one agent asked the tech lead and exited
\* blocked, and the other ended in error while that question was unanswered
C34_Witness ==
  /\ Len(handles) = 2
  /\ handles[1].result # <<>>
  /\ handles[2].result # <<>>
  /\ handles[1].result[1].status = "blocked"
  /\ handles[1].result[1].needsTechLead
  /\ handles[2].result[1].status = "error"
  /\ handles[2].result[1].questionFile = NullFile
  /\ UnansweredQuestions(qs, rs) # {}

\* C35: when unanswered question files have the same modification time,
\* findLatestUnansweredQuestion returns the one with the greatest file name
\* (the names are q-001.md, q-002.md, ...: the greatest number), whatever
\* order the directory listing is in.
C35_TieGoesToGreatestName ==
  \A f \in findLatestUnansweredQuestion(qs, rs) :
    f # NullFile =>
      \A k \in UnansweredQuestions(qs, rs) : qs[k].mtime = qs[f].mtime => k <= f

(***************************************************************************)
(* SpecLoad: `new StateManager()` (src/src/state.ts) in a new process, on  *)
(* a state file that holds anything: the file is missing, or it holds a    *)
(* text saveState wrote, or part of one, or something else.  The text is a *)
(* sequence of tokens; pFile is the file, pOut what the constructor did,   *)
(* and mem the state the StateManager then holds.                          *)
(***************************************************************************)
\* a state file holds at most MaxTokens tokens
MaxTokens == 3

\* the tokens of a state file: the braces of the document, the literal null,
\* and members `"key": value` (with the comma that separates them)
JsonTokens == {"{", "}", "null", "phase: init", "devSessions: []"}

JsonMember(token) == token \notin {"{", "}", "null"}

JsonNull == [kind |-> "null"]

\* JSON.parse(content): the value of the text, SyntaxError when the text is
\* not one JSON value
JSON_parse(content) ==
  IF content = <<"null">> THEN NotThrown(JsonNull)
  ELSE IF /\ Len(content) >= 2
          /\ content[1] = "{"
          /\ content[Len(content)] = "}"
          /\ \A k \in 2..(Len(content) - 1) : JsonMember(content[k])
  THEN NotThrown([kind |-> "object", members |-> SubSeq(content, 2, Len(content) - 1)])
  ELSE [threw |-> "SyntaxError", value |-> JsonNull]

\* loadState(): null when the file does not exist, else JSON.parse of its text
loadStateFile(file) ==
  IF file = <<>> THEN NotThrown(JsonNull) ELSE JSON_parse(file[1])

\* constructor: this.state = state || loadState() || createInitialState()
StateManager_constructor(file, now) ==
  LET loaded == loadStateFile(file)
  IN IF loaded.threw # "none" THEN loaded
     ELSE IF loaded.value.kind = "null" THEN NotThrown(createInitialState(now))
     ELSE loaded

InitLoad ==
  /\ clock = 0
  /\ disk = <<>>
  /\ mem = <<>>
  /\ lastCall = Call("none", Null, Null, "none")
  /\ QEmpty
  /\ SchedIdle
  /\ DriverOff
  /\ wr = <<>>
  /\ found = <<>>
  /\ pIn = <<>>
  /\ pFile \in {<<>>} \cup {<<c>> : c \in SeqsUpTo(JsonTokens, MaxTokens)}
  /\ pOut = <<>>
  /\ pRoute = Null
  /\ fFiles = <<>>
  /\ fPc = "off"
  /\ fDoc = 0
  /\ fTemp = NoTemp
  /\ fNow = 0
  /\ fSeen = <<>>
  /\ HandleIdle

\* new StateManager()
LoadConstruct ==
  /\ pOut = <<>>
  /\ pOut' = <<StateManager_constructor(pFile, clock)>>
  /\ mem' = IF pOut'[1].threw = "none" THEN <<pOut'[1].value>> ELSE <<>>
  /\ UNCHANGED <<pIn, pFile, pRoute, disk, clock, lastCall, qVars, schedVars, drvVars,
                 qwVars, fsVars, hVars>>

NextLoad == LoadConstruct

SpecLoad == InitLoad /\ [][NextLoad]_vars

\* C36: loading the state never raises: with the state file missing the
\* StateManager starts from the initial state (phase init, unblocked), and with
\* a malformed state file the constructor still returns.
C36_LoadNeverRaises ==
  pOut # <<>> =>
    /\ pOut[1].threw = "none"
    /\ pFile = <<>> => mem = <<createInitialState(clock)>>

\* handle i holds a blocked result
BlockedResult(i) ==
  /\ handles[i].result # <<>>
  /\ handles[i].result[1].status = "blocked"

\* C37: when sessions of one batch exit blocked, the questionFile of each
\* blocked result is a question that session's own agent wrote, no two blocked
\* results of the batch carry the same questionFile, and once the whole batch
\* has exited every unanswered question written by a blocked session is
\* carried by some result.
C37_BlockedResultOwnQuestion ==
  \A i, j \in 1..Len(handles) :
    (i # j /\ BlockedResult(i) /\ BlockedResult(j)) =>
      LET questionFile == handles[i].result[1].questionFile
      IN /\ questionFile # NullFile =>
              /\ qs[questionFile].from = AgentName("dev", handles[i].area)
              /\ questionFile # handles[j].result[1].questionFile
         /\ \A n \in UnansweredQuestions(qs, rs) :
              qs[n].from = AgentName("dev", handles[i].area) =>
                \E k \in 1..Len(handles) :
                  BlockedResult(k) /\ handles[k].result[1].questionFile = n

\* a driver process is running
DriverRunning == pc \notin {"off", "returned"}

\* the driver waits for a subprocess to exit or for the user to answer
AwaitingOutside ==
  \/ pc \in {"po_wait", "tl_wait", "prompt_agent", "prompt_dev", "prompt_resume"}
  \/ pc = "dev_wait" /\ SomeRunning(handles)

\* C38: run() always terminates when every agent that is spawned exits and
\* every prompt is answered, whatever the outcomes of the agents: a driver
\* does not go on running for ever without waiting, again and again, for an
\* agent or for the user.
C38_RunTerminates == []<>(~DriverRunning \/ AwaitingOutside)

\* C39: a dev session whose subprocess the supervisor terminated (its
\* AgentResult says killed) is never classified success: the DevAgentResult
\* that the handle of spawnDevAgent builds from a killed AgentResult, and on
\* which monitorDevSessions would mark the session completed, has another
\* status.
C39_KilledNeverSuccess ==
  (hResult # <<>> /\ hResult[1].threw = "none" /\ hResult[1].value.killed) =>
    toDevAgentResult("frontend", hResult[1].value, qs, NullFile).status # "success"

\* the driver spawns the PO or tech-lead agent, or the dev agents of a batch
SpawnsAgent ==
  \/ child.kind = "none" /\ child'.kind # "none"
  \/ ~SomeRunning(handles) /\ SomeRunning(handles')

\* C40: no agent subprocess is spawned while the state is blocked: on every
\* step that spawns a PO, tech-lead or dev agent, within a run and after a
\* resume, blocked.isBlocked is false in memory and in the state file.
C40_NoSpawnWhileBlocked ==
  [][SpawnsAgent => (~mem[1].blocked.isBlocked /\ ~disk[1].blocked.isBlocked)]_vars

=============================================================================
